---------------------------- MODULE Spec2Model ----------------------------
(***************************************************************************)
(* A model of the trading-arena market engine (backend/market.py), its     *)
(* SQLite store (backend/db.py) and the request handlers that drive it     *)
(* (backend/app.py).                                                        *)
(*                                                                         *)
(* Python floats are modelled as binary floats of reduced precision: each   *)
(* value is a rational <<n, d>> in lowest terms with d > 0, and every       *)
(* arithmetic operation rounds its exact result to MantissaBits bits.       *)
(* Each sqlite3 connection is opened with isolation_level=None, so every   *)
(* statement is committed by itself; the model's store changes one         *)
(* statement at a time.                                                     *)
(***************************************************************************)
EXTENDS Integers, Sequences, FiniteSets, TLC

(***************************************************************************)
(* Bounds of the model.                                                     *)
(***************************************************************************)
\* Number of handler calls the request workers make in one run.
MaxCalls == 3
\* The wall clock runs from 1 to MaxClock (unix seconds).
MaxClock == 2

\* How many times the server process is stopped and started again.
MaxRestarts == 1

\* Significant bits of a float of the model.
MantissaBits == 12

(***************************************************************************)
(* Program constants.                                                       *)
(***************************************************************************)
INITIAL_CASH == 10000

(***************************************************************************)
(* Numbers.  A Python float is modelled by its value, a rational <<n, d>>   *)
(* in lowest terms with d > 0, and every arithmetic operation rounds its    *)
(* exact result to the nearest float (ties to even), as IEEE 754 does; the  *)
(* floats of the model carry MantissaBits significant bits instead of 53.   *)
(***************************************************************************)
Abs(n) == IF n < 0 THEN -n ELSE n

RECURSIVE GCD(_, _)
GCD(a, b) == IF b = 0 THEN a ELSE GCD(b, a % b)

Norm(n, d) ==
    LET s == IF d < 0 THEN -1 ELSE 1
        g == GCD(Abs(n), Abs(d))
    IN  <<(s * n) \div g, (s * d) \div g>>

\* Exact sum, product and reciprocal of two rationals.
XAdd(a, b) ==
    LET g == GCD(a[2], b[2])
    IN  Norm(a[1] * (b[2] \div g) + b[1] * (a[2] \div g), (a[2] \div g) * b[2])

XMul(a, b) ==
    LET g1 == GCD(Abs(a[1]), b[2])
        g2 == GCD(Abs(b[1]), a[2])
    IN  IF a[1] = 0 \/ b[1] = 0 THEN <<0, 1>>
        ELSE <<(a[1] \div g1) * (b[1] \div g2), (a[2] \div g2) * (b[2] \div g1)>>

XInv(a) == IF a[1] < 0 THEN <<-a[2], -a[1]>> ELSE <<a[2], a[1]>>

RECURSIVE Pow2(_)
Pow2(n) == IF n = 0 THEN 1 ELSE 2 * Pow2(n - 1)

\* The float nearest to (n / d) * 2^e, for n, d > 0: the quotient is scaled
\* to MantissaBits bits and rounded, ties to the even mantissa.
MantissaTop == Pow2(MantissaBits)
MantissaLow == Pow2(MantissaBits - 1)

RECURSIVE Scale(_, _, _)
Scale(n, d, e) ==
    IF n >= d * MantissaTop THEN Scale(n, 2 * d, e + 1)
    ELSE IF n < d * MantissaLow THEN Scale(2 * n, d, e - 1)
    ELSE LET m0 == n \div d
             r == n % d
             m == IF 2 * r > d \/ (2 * r = d /\ m0 % 2 = 1) THEN m0 + 1 ELSE m0
         IN  IF e >= 0 THEN <<m * Pow2(e), 1>> ELSE Norm(m, Pow2(-e))

\* The same, the powers of two in n and d moved into e first.
RECURSIVE RoundPos(_, _, _)
RoundPos(n, d, e) ==
    IF d % 2 = 0 THEN RoundPos(n, d \div 2, e - 1)
    ELSE IF n % 2 = 0 THEN RoundPos(n \div 2, d, e + 1)
    ELSE Scale(n, d, e)

\* float(a): the float nearest to the rational a.
Fl(a) ==
    IF a[1] = 0 THEN <<0, 1>>
    ELSE IF a[1] > 0 THEN RoundPos(a[1], a[2], 0)
    ELSE LET r == RoundPos(-a[1], a[2], 0) IN <<-r[1], r[2]>>

\* Literals.
R(n) == Fl(<<n, 1>>)
Frac(n, d) == Fl(Norm(n, d))

\* The float operations -a, a + b, a - b, a * b, a / b, abs(a).
RNeg(a) == <<-a[1], a[2]>>
RAdd(a, b) == Fl(XAdd(a, b))
RSub(a, b) == Fl(XAdd(a, RNeg(b)))

\* The exponent of 2 in n > 0.
RECURSIVE TwoExp(_)
TwoExp(n) == IF n % 2 = 0 THEN 1 + TwoExp(n \div 2) ELSE 0

\* a * b: the product of the two odd mantissas at the sum of the exponents,
\* rounded (the exact product of two small floats has a denominator beyond
\* the integers at hand, its mantissa has not).
RMul(a, b) ==
    IF a[1] = 0 \/ b[1] = 0 THEN <<0, 1>>
    ELSE LET e == TwoExp(Abs(a[1])) - TwoExp(a[2])
                  + TwoExp(Abs(b[1])) - TwoExp(b[2])
             r == RoundPos((Abs(a[1]) \div Pow2(TwoExp(Abs(a[1]))))
                           * (Abs(b[1]) \div Pow2(TwoExp(Abs(b[1])))), 1, e)
         IN  IF (a[1] < 0) = (b[1] < 0) THEN r ELSE <<-r[1], r[2]>>

\* Python raises ZeroDivisionError on b = 0; every call site guards b # 0.
RDiv(a, b) == Fl(XMul(a, XInv(b)))

\* The order of n1/d1 and n2/d2 (d1, d2 > 0) as -1, 0 or 1, by integer
\* parts and then the reciprocals of the fractional parts: no products.
RECURSIVE Cmp(_, _, _, _)
Cmp(n1, d1, n2, d2) ==
    LET q1 == n1 \div d1
        q2 == n2 \div d2
        r1 == n1 % d1
        r2 == n2 % d2
    IN  IF q1 # q2 THEN (IF q1 < q2 THEN -1 ELSE 1)
        ELSE IF r1 = 0 /\ r2 = 0 THEN 0
        ELSE IF r1 = 0 THEN -1
        ELSE IF r2 = 0 THEN 1
        ELSE -Cmp(d1, r1, d2, r2)

RLt(a, b) == Cmp(a[1], a[2], b[1], b[2]) = -1
RLe(a, b) == ~RLt(b, a)
RPos(a) == a[1] > 0
RZero(a) == a[1] = 0
RAbs(a) == <<Abs(a[1]), a[2]>>
RMax(a, b) == IF RLt(a, b) THEN b ELSE a
\* A minimum that is its first argument.
MinIsFirst(a, b) == a
RMin(a, b) == IF RLt(b, a) THEN b ELSE a

Zero == <<0, 1>>
One == <<1, 1>>

(***************************************************************************)
(* Configurations (MarketConfig).  Every run draws one.                     *)
(*   CfgDeployed: the risk settings of the deployed engine instance.        *)
(*   CfgTight:    a fee and a leverage cap small enough that the margin     *)
(*                gate refuses trades of the sizes the workers submit.      *)
(*   CfgAllFee:   fee_rate = 1, so every input is consumed by the fee.      *)
(***************************************************************************)
MkConfig(fee, lev, mineq, stop) ==
    [ candle_seconds        |-> 1,
      start_price           |-> R(100),
      initial_usd_liquidity |-> R(500),
      seed_enabled          |-> FALSE,
      seed_seconds          |-> 4,
      seed_candle_seconds   |-> 2,
      seed_step_pct         |-> Frac(1, 8),
      fee_rate              |-> fee,
      min_equity            |-> mineq,
      leverage_max          |-> lev,
      stopout_equity        |-> stop ]

CfgDeployed == MkConfig(Zero, R(3), Zero, Zero)
CfgTight    == MkConfig(Frac(1, 10), Frac(1, 10), Zero, Zero)
CfgAllFee   == MkConfig(One, R(3), Zero, Zero)

Configs == {CfgDeployed, CfgTight, CfgAllFee}

(***************************************************************************)
(* Threads, players and inputs.                                             *)
(***************************************************************************)
Workers == {"w1", "w2"}
Ticker  == "ticker"
Threads == Workers \cup {Ticker}

Codes == {"alice", "bob"}
Nicks == {"nick"}
\* The calls the workers make: (code, usd_in) for market_buy and
\* (code, rich_in) for market_sell.  alice has a wallet, bob has none.
BuyInputs  == {<<"alice", R(0)>>, <<"alice", R(1000)>>, <<"alice", R(10000)>>,
               <<"bob", R(1000)>>}
SellInputs == {<<"alice", R(0)>>, <<"alice", R(3)>>, <<"bob", R(3)>>}

NoRow == [absent |-> TRUE]
None  == <<"none">>
Idle  == [op |-> "none"]

VARIABLES
    cfg,            \* MarketEngine.cfg
    pool_x, pool_y, pool_k, price, started,
    candle_ts, candle_o, candle_h, candle_l, candle_c,
    lock,           \* MarketEngine._lock: "none" or the thread holding it
    players,        \* table players: code -> row or NoRow
    trades,         \* table trades, in id order (id = position)
    candles,        \* table candles: ts -> [open, high, low, close]
    market_state,   \* table market_state: key -> text or None
    clock,          \* time.time(), in whole seconds
    pc,             \* where each thread stands
    loc,            \* each thread's local variables, or its last result
    calls_left,     \* handler calls the workers may still make
    served,         \* history, where kept: the trade calls and the pool (re)loads, in lock order
    restarts_left,  \* restarts of the server process still to come
    _STATS_CACHE,   \* app.py's memo: code -> None or the stored id and stats
    _STATS_CACHE_TS \* code -> the time stored with it (0 where none is)

poolVars   == <<pool_x, pool_y, pool_k, price, started>>
candleVars == <<candle_ts, candle_o, candle_h, candle_l, candle_c>>
dbVars     == <<players, trades, candles, market_state>>
cacheVars  == <<_STATS_CACHE, _STATS_CACHE_TS>>
vars == <<cfg, pool_x, pool_y, pool_k, price, started,
          candle_ts, candle_o, candle_h, candle_l, candle_c,
          lock, players, trades, candles, market_state, clock, pc, loc,
          calls_left, restarts_left, served, _STATS_CACHE, _STATS_CACHE_TS>>

(***************************************************************************)
(* Text conversions of the engine-state table: str(x) and float(v).         *)
(* str of a float is its shortest repr, which float() reads back exactly;   *)
(* a stored text is modelled as the tagged value it denotes.                *)
(***************************************************************************)
Str(v) == <<"text", v>>
ParseFloat(s) == s[2]

get_state(key) == market_state[key]

_get_state_float(key) ==
    IF get_state(key) = None THEN None ELSE ParseFloat(get_state(key))

\* The six writes of _set_pool_state, applied to table ms.
SetPoolStateOf(ms, x, y, k, p, cts, st) ==
    [ms EXCEPT !.pool_x = Str(x), !.pool_y = Str(y), !.pool_k = Str(k),
               !.price = Str(p), !.candle_ts = Str(cts),
               !.started = Str(IF st THEN "1" ELSE "0")]

_equity(cash, pos, p) == RAdd(cash, RMul(pos, p))

EpsDen == 1000000000

\* d <= 1e-9, for a rational d.  exposure <= max_exposure + 1e-9 is decided
\* on the exact difference d = exposure - max_exposure: two floats of the
\* magnitudes met here differ by nothing or by far more than 1e-9, and the
\* sum max_exposure + 1e-9 rounds accordingly.
LeEps(d) == d[1] <= 0 \/ EpsDen <= d[2] \div d[1]

\* A margin check that keeps the equity floor and drops the leverage cap.
MarginEquityOnly(cash_after, pos_after, price_after) ==
    ~RLt(_equity(cash_after, pos_after, price_after), cfg.min_equity)

\* A margin rule that holds the exposure against the cash left.
MarginAgainstCash(cash_after, pos_after, price_after) ==
    RLe(RMul(RAbs(pos_after), price_after),
        RMul(cash_after, cfg.leverage_max))

_margin_ok(cash_after, pos_after, price_after) ==
    LET equity == _equity(cash_after, pos_after, price_after)
        lev == cfg.leverage_max
        exposure == RMul(RAbs(pos_after), price_after)
        max_exposure == RMul(equity, lev)
    IN  IF RLt(equity, cfg.min_equity) THEN FALSE
        ELSE IF ~RPos(lev) THEN FALSE
        ELSE LeEps(XAdd(exposure, RNeg(max_exposure)))

(***************************************************************************)
(* Candles.                                                                 *)
(***************************************************************************)
CandleSeconds == IF cfg.candle_seconds < 1 THEN 1 ELSE cfg.candle_seconds
Bucket(now_s) == (now_s \div CandleSeconds) * CandleSeconds

upsert_candle(tbl, ts, o, h, l, c) ==
    (ts :> [open |-> o, high |-> h, low |-> l, close |-> c]) @@ tbl

\* A _touch_candle that moves the close only.
TouchCloseOnly(now_s, p) ==
    IF Bucket(now_s) # candle_ts
    THEN [ts |-> Bucket(now_s), o |-> p, h |-> p, l |-> p, c |-> p,
          candles |-> upsert_candle(candles, candle_ts, candle_o, candle_h,
                                    candle_l, candle_c)]
    ELSE [ts |-> candle_ts, o |-> candle_o, h |-> candle_h, l |-> candle_l,
          c |-> p, candles |-> candles]

\* _touch_candle(now_s, p): the live candle and the candle table it leaves.
_touch_candle(now_s, p) ==
    IF Bucket(now_s) # candle_ts
    THEN [ts |-> Bucket(now_s), o |-> p, h |-> p, l |-> p, c |-> p,
          candles |-> upsert_candle(candles, candle_ts, candle_o, candle_h,
                                    candle_l, candle_c)]
    ELSE [ts |-> candle_ts, o |-> candle_o,
          h |-> IF RLt(candle_h, p) THEN p ELSE candle_h,
          l |-> IF RLt(p, candle_l) THEN p ELSE candle_l,
          c |-> p,
          candles |-> candles]

SetCandle(tc) ==
    /\ candle_ts' = tc.ts
    /\ candle_o' = tc.o
    /\ candle_h' = tc.h
    /\ candle_l' = tc.l
    /\ candle_c' = tc.c

OpenCandle(ts, p) == [ts |-> ts, o |-> p, h |-> p, l |-> p, c |-> p]

(***************************************************************************)
(* Init: the engine as __init__ leaves it, the store as init_db leaves it   *)
(* plus one player who joined before (a fresh wallet), the ticker thread    *)
(* started and about to run init_or_load.                                   *)
(***************************************************************************)
NewPlayer(nick, now) ==
    [nick |-> nick, cash |-> R(INITIAL_CASH), pos |-> Zero,
     created_at |-> now, updated_at |-> now]

EmptyState ==
    [pool_x |-> None, pool_y |-> None, pool_k |-> None, price |-> None,
     candle_ts |-> None, started |-> None, seeded_tag |-> None]

InitEngine ==
    /\ pool_x = Zero /\ pool_y = Zero /\ pool_k = Zero
    /\ price = cfg.start_price
    /\ candle_ts = 0
    /\ candle_o = price /\ candle_h = price
    /\ candle_l = price /\ candle_c = price
    /\ started = FALSE
    /\ lock = "none"

\* The engine state an earlier run of the same configuration left when it
\* was stopped right after start_game (at second 0, before any tick).
StartedState ==
    LET y == RMax(R(1000), cfg.initial_usd_liquidity)
        x == RDiv(y, cfg.start_price)
    IN  SetPoolStateOf(EmptyState, x, y, RMul(x, y), RDiv(y, x), 0, TRUE)

InitStore ==
    /\ players = [c \in Codes |-> IF c = "alice" THEN NewPlayer("old", 0) ELSE NoRow]
    /\ trades = <<>>
    /\ candles = <<>>
    /\ market_state \in {EmptyState, StartedState}

InitThreads ==
    /\ clock = 1
    /\ pc = [t \in Threads |-> IF t = Ticker THEN "init" ELSE "idle"]
    /\ loc = [t \in Threads |-> Idle]
    /\ calls_left = MaxCalls
    /\ restarts_left = MaxRestarts
    /\ _STATS_CACHE = [c \in Codes |-> None]
    /\ _STATS_CACHE_TS = [c \in Codes |-> 0]

\* No history of served calls is kept.
NoHistory == [keep |-> FALSE, calls |-> <<>>]

Init ==
    /\ cfg \in Configs
    /\ InitEngine
    /\ InitStore
    /\ InitThreads
    /\ served = NoHistory

(***************************************************************************)
(* Results and helpers of the handlers.                                     *)
(***************************************************************************)
\* A refusal: the dict {"ok": False, "error": msg}.
Err(op, msg) == [ok |-> FALSE, error |-> msg]

\* What a worker keeps once its handler has returned result r: whether the
\* call was accepted and the error (the rest goes to the client).
Returned(r) ==
    [op |-> "returned", ok |-> r.ok,
     error |-> IF r.ok THEN "" ELSE r.error]

HasRow(code) == players[code] # NoRow

\* An id taken from the clock.
NextIdFromClock == clock

\* id INTEGER PRIMARY KEY AUTOINCREMENT: one more than the largest id the
\* table has held (no row is ever deleted).
NextId == IF trades = <<>> THEN 1 ELSE trades[Len(trades)].id + 1

TradeRow(code, ts, side, qty, tprice, notional, fee, cash_after, pos_after) ==
    [id |-> NextId, code |-> code, ts |-> ts, side |-> side,
     qty |-> qty, price |-> tprice, notional |-> notional, fee |-> fee,
     cash_after |-> cash_after, pos_after |-> pos_after]

\* UPDATE players SET cash = ?, pos = ?, updated_at = ? WHERE code = ?
UpdateWallet(tbl, code, cash, pos, now) ==
    IF tbl[code] = NoRow THEN tbl
    ELSE [tbl EXCEPT ![code].cash = cash, ![code].pos = pos,
                     ![code].updated_at = now]

WalletOf(code) ==
    IF HasRow(code) THEN <<players[code].cash, players[code].pos>> ELSE <<>>

\* What a trade saw when it took the lock (kept to compare with what it leaves).
PreState ==
    [pool_x |-> pool_x, pool_y |-> pool_y, pool_k |-> pool_k, price |-> price,
     candle |-> <<candle_ts, candle_o, candle_h, candle_l, candle_c>>,
     wallets |-> [c \in Codes |-> WalletOf(c)],
     ntrades |-> Len(trades), state |-> market_state]

\* The history with the trade call in l added, as it takes the lock.
Served(side, l) ==
    IF ~served.keep THEN served
    ELSE [served EXCEPT !.calls =
             Append(@, [op |-> side, code |-> l.code, amt |-> l.amt])]

\* The history with a pool set by start_game, init_or_load or a restart.
Loaded(x, y, k, st) ==
    IF ~served.keep THEN served
    ELSE [served EXCEPT !.calls =
             Append(@, [op |-> "LOAD", x |-> x, y |-> y, k |-> k,
                        started |-> st])]

\* No mutual exclusion at all.
CanAcquireAlways == TRUE

\* Taking MarketEngine._lock (threading.Lock, not reentrant): possible only
\* while no thread holds it.
CanAcquire == lock = "none"

(***************************************************************************)
(* market_buy                                                               *)
(***************************************************************************)
\* A buy sized on the gross usd_in instead of the amount net of the fee.
BuyXNewGross(k, y_new) ==
    RDiv(k, RAdd(pool_y, RDiv(RSub(y_new, pool_y), RSub(One, cfg.fee_rate))))

\* AMM buy: X' = K / Y'
BuyXNew(k, y_new) == RDiv(k, y_new)

\* The arithmetic of market_buy on reserves (x, y, k) and a wallet
\* (cash, pos): the refusal, or the candidate reserves and the trade.
BuyMath(x, y, k, cash, pos, usd_in) ==
    IF RLt(cash, usd_in) THEN Err("buy", "saldo USD insuficiente")
    ELSE
      LET fee == RMul(usd_in, cfg.fee_rate)
          usd_effective == RSub(usd_in, fee)
      IN  IF ~RPos(usd_effective)
          THEN Err("buy", "usd_in pequeno demais (fee)")
          ELSE
            LET y_new == RAdd(y, usd_effective)
                x_new == BuyXNew(k, y_new)
                rich_out == RSub(x, x_new)
            IN  IF ~RPos(rich_out) \/ ~RPos(x_new)
                THEN Err("buy", "liquidez insuficiente")
                ELSE [op |-> "buy", ok |-> TRUE,
                      side |-> "BUY", cash |-> cash, pos |-> pos,
                      fee |-> fee, usd_effective |-> usd_effective,
                      x_new |-> x_new, y_new |-> y_new,
                      rich_out |-> rich_out, qty |-> rich_out,
                      trade_price |-> RDiv(usd_effective, rich_out),
                      notional |-> usd_in,
                      cash_after |-> RSub(cash, usd_in),
                      pos_after |-> RAdd(pos, rich_out)]

\* The checks of market_buy once it holds the lock, on the engine state and
\* the wallet row it reads there.
BuyQuote(code, usd_in) ==
    IF ~started THEN Err("buy", "mercado nao iniciado (start_game)")
    ELSE IF ~RPos(pool_x) \/ ~RPos(pool_y) \/ ~RPos(pool_k)
        THEN Err("buy", "pool invalido")
    ELSE IF ~HasRow(code) THEN Err("buy", "player nao existe")
    ELSE BuyMath(pool_x, pool_y, pool_k, players[code].cash,
                 players[code].pos, usd_in)

\* market_buy up to the lock: argument checks, then now = int(time.time()).
MarketBuyCall(w, code, usd_in) ==
    /\ pc[w] = "idle"
    /\ calls_left > 0
    /\ calls_left' = calls_left - 1
    /\ IF ~RPos(usd_in)
       THEN /\ loc' = [loc EXCEPT ![w] = Returned(Err("buy", "usd_in invalido"))]
            /\ pc' = pc
       ELSE /\ loc' = [loc EXCEPT ![w] = [op |-> "buy", code |-> code,
                                           amt |-> usd_in, now |-> clock]]
            /\ pc' = [pc EXCEPT ![w] = "buy_wait"]
    /\ UNCHANGED <<cfg, poolVars, candleVars, lock, dbVars, clock, served, restarts_left,
                   cacheVars>>

\* market_buy takes the lock, checks, and moves the pool to the candidate
\* reserves; a refused call leaves the with-block at once.
MarketBuyEnter(w) ==
    /\ pc[w] = "buy_wait"
    /\ CanAcquire
    /\ LET l == loc[w]
           q == BuyQuote(l.code, l.amt)
       IN  IF ~q.ok
           THEN /\ loc' = [loc EXCEPT ![w] = Returned(q)]
                /\ pc' = [pc EXCEPT ![w] = "idle"]
                /\ UNCHANGED <<pool_x, pool_y, price, lock>>
           ELSE /\ pool_y' = q.y_new
                /\ pool_x' = q.x_new
                /\ price' = RDiv(q.y_new, q.x_new)
                /\ lock' = w
                /\ loc' = [loc EXCEPT ![w] =
                              q @@
                              [code |-> l.code, amt |-> l.amt, now |-> l.now,
                               pre |-> PreState]]
                /\ pc' = [pc EXCEPT ![w] = "buy_margin"]
    /\ served' = Served("BUY", loc[w])
    /\ UNCHANGED <<cfg, pool_k, started, candleVars, dbVars, clock, calls_left, restarts_left,
                   cacheVars>>

\* A revert that puts the reserves back and leaves the price as it is.
BuyRevertKeepPrice(x_new, y_new, l) ==
    [pool_y |-> RSub(y_new, l.usd_effective),
     pool_x |-> RAdd(x_new, l.rich_out), price |-> RDiv(y_new, x_new)]

\* The pool and price after market_buy undoes the candidate reserves
\* (x_new, y_new) of the trade l.
BuyRevert(x_new, y_new, l) ==
    LET y == RSub(y_new, l.usd_effective)
        x == RAdd(x_new, l.rich_out)
    IN  [pool_y |-> y, pool_x |-> x, price |-> RDiv(y, x)]

\* The margin check of market_buy at the post-trade price: a refusal puts
\* the reserves back; otherwise the wallet UPDATE is executed (and, the
\* connection being in autocommit mode, committed).
MarketBuyMargin(w) ==
    /\ pc[w] = "buy_margin"
    /\ lock = w
    /\ LET l == loc[w]
       IN  IF ~_margin_ok(l.cash_after, l.pos_after, price)
           THEN /\ pool_y' = BuyRevert(pool_x, pool_y, l).pool_y
                /\ pool_x' = BuyRevert(pool_x, pool_y, l).pool_x
                /\ price' = BuyRevert(pool_x, pool_y, l).price
                /\ lock' = "none"
                /\ loc' = [loc EXCEPT ![w] = Returned(
                       Err("buy", "margem insuficiente / alavancagem excedida"))]
                /\ pc' = [pc EXCEPT ![w] = "idle"]
                /\ UNCHANGED players
           ELSE /\ players' = UpdateWallet(players, l.code, l.cash_after,
                                           l.pos_after, l.now)
                /\ pc' = [pc EXCEPT ![w] = "buy_insert"]
                /\ UNCHANGED <<pool_x, pool_y, price, lock, loc>>
    /\ UNCHANGED <<cfg, pool_k, started, candleVars, trades, candles,
                   market_state, clock, served, calls_left, restarts_left,
                   cacheVars>>

\* The trade row market_buy / market_sell INSERTs for the call in l.
RowOf(l) ==
    TradeRow(l.code, l.now, l.side, l.qty, l.trade_price, l.notional, l.fee,
             l.cash_after, l.pos_after)

\* The rest of the with-block of an accepted trade: the trade INSERT,
\* _touch_candle(now, price) and _set_pool_state(); the lock is released on
\* leaving the block (conn.commit() then has nothing left to commit).
CommitTail(w, nextpc) ==
    LET l == loc[w]
        tc == _touch_candle(l.now, price)
    IN  /\ lock = w
        /\ trades' = Append(trades, RowOf(l))
        /\ SetCandle(tc)
        /\ candles' = tc.candles
        /\ market_state' = SetPoolStateOf(market_state, pool_x, pool_y, pool_k,
                                          price, tc.ts, started)
        /\ lock' = "none"
        /\ pc' = [pc EXCEPT ![w] = nextpc]
        /\ UNCHANGED <<cfg, poolVars, players, clock, served, loc, calls_left, restarts_left,
                   cacheVars>>

MarketBuyCommit(w) ==
    /\ pc[w] = "buy_insert"
    /\ CommitTail(w, "buy_ret")

\* The dict market_buy returns; price_after is read from self.price after
\* the lock was released.
BuyResult(w) ==
    LET l == loc[w]
    IN  [ok |-> TRUE, side |-> "BUY", ts |-> l.now, usd_in |-> l.amt,
         fee |-> l.fee, rich_out |-> l.rich_out,
         avg_price |-> l.trade_price, price_after |-> price,
         cash_after |-> l.cash_after, pos_after |-> l.pos_after]

MarketBuyReturn(w) ==
    /\ pc[w] = "buy_ret"
    /\ loc' = [loc EXCEPT ![w] = Returned(BuyResult(w))]
    /\ pc' = [pc EXCEPT ![w] = "idle"]
    /\ UNCHANGED <<cfg, poolVars, candleVars, lock, dbVars, clock, served, calls_left, restarts_left,
                   cacheVars>>

(***************************************************************************)
(* market_sell                                                              *)
(***************************************************************************)
\* AMM sell: Y' = K / X'
SellYNew(k, x_new) == RDiv(k, x_new)

\* The arithmetic of market_sell on reserves (x, y, k) and a wallet.
SellMath(x, y, k, cash, pos, rich_in) ==
    LET x_new == RAdd(x, rich_in)
        y_new == SellYNew(k, x_new)
        usd_out_gross == RSub(y, y_new)
    IN  IF ~RPos(usd_out_gross) \/ ~RPos(y_new)
        THEN Err("sell", "liquidez insuficiente")
        ELSE
          LET fee == RMul(usd_out_gross, cfg.fee_rate)
              usd_out == RSub(usd_out_gross, fee)
          IN  IF ~RPos(usd_out)
              THEN Err("sell", "resultado pequeno demais (fee)")
              ELSE [op |-> "sell", ok |-> TRUE,
                    side |-> "SELL", cash |-> cash, pos |-> pos,
                    fee |-> fee, usd_out_gross |-> usd_out_gross,
                    usd_out |-> usd_out,
                    x_new |-> x_new, y_new |-> y_new,
                    rich_in |-> rich_in, qty |-> rich_in,
                    trade_price |-> RDiv(usd_out, rich_in),
                    notional |-> usd_out,
                    cash_after |-> RAdd(cash, usd_out),
                    pos_after |-> RSub(pos, rich_in)]

SellQuote(code, rich_in) ==
    IF ~started THEN Err("sell", "mercado nao iniciado (start_game)")
    ELSE IF ~RPos(pool_x) \/ ~RPos(pool_y) \/ ~RPos(pool_k)
        THEN Err("sell", "pool invalido")
    ELSE IF ~HasRow(code) THEN Err("sell", "player nao existe")
    ELSE SellMath(pool_x, pool_y, pool_k, players[code].cash,
                  players[code].pos, rich_in)

MarketSellCall(w, code, rich_in) ==
    /\ pc[w] = "idle"
    /\ calls_left > 0
    /\ calls_left' = calls_left - 1
    /\ IF ~RPos(rich_in)
       THEN /\ loc' = [loc EXCEPT ![w] = Returned(Err("sell", "rich_in invalido"))]
            /\ pc' = pc
       ELSE /\ loc' = [loc EXCEPT ![w] = [op |-> "sell", code |-> code,
                                           amt |-> rich_in, now |-> clock]]
            /\ pc' = [pc EXCEPT ![w] = "sell_wait"]
    /\ UNCHANGED <<cfg, poolVars, candleVars, lock, dbVars, clock, served, restarts_left,
                   cacheVars>>

MarketSellEnter(w) ==
    /\ pc[w] = "sell_wait"
    /\ CanAcquire
    /\ LET l == loc[w]
           q == SellQuote(l.code, l.amt)
       IN  IF ~q.ok
           THEN /\ loc' = [loc EXCEPT ![w] = Returned(q)]
                /\ pc' = [pc EXCEPT ![w] = "idle"]
                /\ UNCHANGED <<pool_x, pool_y, price, lock>>
           ELSE /\ pool_x' = q.x_new
                /\ pool_y' = q.y_new
                /\ price' = RDiv(q.y_new, q.x_new)
                /\ lock' = w
                /\ loc' = [loc EXCEPT ![w] =
                              q @@
                              [code |-> l.code, amt |-> l.amt, now |-> l.now,
                               pre |-> PreState]]
                /\ pc' = [pc EXCEPT ![w] = "sell_margin"]
    /\ served' = Served("SELL", loc[w])
    /\ UNCHANGED <<cfg, pool_k, started, candleVars, dbVars, clock, calls_left, restarts_left,
                   cacheVars>>

\* The pool and price after market_sell undoes the candidate reserves
\* (x_new, y_new) of the trade l.
SellRevert(x_new, y_new, l) ==
    LET x == RSub(x_new, l.rich_in)
        y == RAdd(y_new, l.usd_out_gross)
    IN  [pool_y |-> y, pool_x |-> x, price |-> RDiv(y, x)]

MarketSellMargin(w) ==
    /\ pc[w] = "sell_margin"
    /\ lock = w
    /\ LET l == loc[w]
       IN  IF ~_margin_ok(l.cash_after, l.pos_after, price)
           THEN /\ pool_y' = SellRevert(pool_x, pool_y, l).pool_y
                /\ pool_x' = SellRevert(pool_x, pool_y, l).pool_x
                /\ price' = SellRevert(pool_x, pool_y, l).price
                /\ lock' = "none"
                /\ loc' = [loc EXCEPT ![w] = Returned(
                       Err("sell", "margem insuficiente / alavancagem excedida"))]
                /\ pc' = [pc EXCEPT ![w] = "idle"]
                /\ UNCHANGED players
           ELSE /\ players' = UpdateWallet(players, l.code, l.cash_after,
                                           l.pos_after, l.now)
                /\ pc' = [pc EXCEPT ![w] = "sell_insert"]
                /\ UNCHANGED <<pool_x, pool_y, price, lock, loc>>
    /\ UNCHANGED <<cfg, pool_k, started, candleVars, trades, candles,
                   market_state, clock, served, calls_left, restarts_left,
                   cacheVars>>

MarketSellCommit(w) ==
    /\ pc[w] = "sell_insert"
    /\ CommitTail(w, "sell_ret")

SellResult(w) ==
    LET l == loc[w]
    IN  [ok |-> TRUE, side |-> "SELL", ts |-> l.now, rich_in |-> l.amt,
         fee |-> l.fee, usd_out |-> l.usd_out,
         avg_price |-> l.trade_price, price_after |-> price,
         cash_after |-> l.cash_after, pos_after |-> l.pos_after]

MarketSellReturn(w) ==
    /\ pc[w] = "sell_ret"
    /\ loc' = [loc EXCEPT ![w] = Returned(SellResult(w))]
    /\ pc' = [pc EXCEPT ![w] = "idle"]
    /\ UNCHANGED <<cfg, poolVars, candleVars, lock, dbVars, clock, served, calls_left, restarts_left,
                   cacheVars>>

(***************************************************************************)
(* start_game and snapshot                                                  *)
(***************************************************************************)
\* The dict snapshot() builds while it holds the lock.
SnapshotValue ==
    [started |-> started, price |-> price,
     pool |-> [x_rich |-> pool_x, y_usd |-> pool_y, k |-> pool_k],
     candle |-> [ts |-> candle_ts, open |-> candle_o, high |-> candle_h,
                 low |-> candle_l, close |-> candle_c]]

\* A seeding that takes initial_usd_liquidity as it is.
StartPoolUnfloored ==
    LET p0 == RMax(Frac(1, 10000), price)
        x == RDiv(cfg.initial_usd_liquidity, p0)
        y == cfg.initial_usd_liquidity
    IN  [x |-> x, y |-> y, k |-> RMul(x, y), price |-> RDiv(y, x)]

\* The pool start_game seeds from the configuration and the current price.
StartPool ==
    LET usd_liq == RMax(R(1000), cfg.initial_usd_liquidity)
        p0 == RMax(Frac(1, 10000), price)
        x == RDiv(usd_liq, p0)
        y == usd_liq
    IN  [x |-> x, y |-> y, k |-> RMul(x, y), price |-> RDiv(y, x)]

StartGameCall(w) ==
    /\ pc[w] = "idle"
    /\ calls_left > 0
    /\ calls_left' = calls_left - 1
    /\ pc' = [pc EXCEPT ![w] = "sg_wait"]
    /\ loc' = [loc EXCEPT ![w] = [op |-> "start_game"]]
    /\ UNCHANGED <<cfg, poolVars, candleVars, lock, dbVars, clock, served, restarts_left,
                   cacheVars>>

\* start_game takes the lock.  Already started with positive reserves: it
\* goes on to call self.snapshot() inside the with-block, the lock still
\* held.  Otherwise it seeds the pool, opens the candle, persists the state
\* and leaves the with-block, with the closing snapshot() still to come.
\* A start_game that seeds the pool whatever the engine holds.
AlreadyStartedNever == FALSE

\* if self.started and self.pool_x > 0 and self.pool_y > 0
AlreadyStarted == started /\ RPos(pool_x) /\ RPos(pool_y)

StartGameEnter(w) ==
    /\ pc[w] = "sg_wait"
    /\ CanAcquire
    /\ IF AlreadyStarted
       THEN /\ lock' = w
            /\ pc' = [pc EXCEPT ![w] = "sg_inner"]
            /\ UNCHANGED <<poolVars, candleVars, market_state>>
       ELSE LET sp == StartPool
                ts == Bucket(clock)
            IN  /\ pool_x' = sp.x
                /\ pool_y' = sp.y
                /\ pool_k' = sp.k
                /\ price' = sp.price
                /\ started' = TRUE
                /\ SetCandle(OpenCandle(ts, sp.price))
                /\ market_state' = SetPoolStateOf(market_state, sp.x, sp.y, sp.k,
                                                  sp.price, ts, TRUE)
                /\ lock' = "none"
                /\ pc' = [pc EXCEPT ![w] = "sg_snapshot"]
    /\ served' = IF AlreadyStarted THEN served
                 ELSE Loaded(pool_x', pool_y', pool_k', TRUE)
    /\ UNCHANGED <<cfg, players, trades, candles, clock, loc, calls_left, restarts_left,
                   cacheVars>>

\* The snapshot() call of start_game: it takes the (non-reentrant) lock,
\* copies the state and releases it; start_game then returns the copy.
StartGameSnapshot(w) ==
    /\ pc[w] \in {"sg_inner", "sg_snapshot"}
    /\ CanAcquire
    /\ loc' = [loc EXCEPT ![w] = Returned([ok |-> TRUE,
                                            snapshot |-> SnapshotValue])]
    /\ pc' = [pc EXCEPT ![w] = "idle"]
    /\ UNCHANGED <<cfg, poolVars, candleVars, lock, dbVars, clock, served, calls_left, restarts_left,
                   cacheVars>>

\* snapshot() called by a request (GET /api/state): it takes the lock,
\* copies the engine state and releases the lock.
Snapshot(w) ==
    /\ pc[w] = "idle"
    /\ calls_left > 0
    /\ calls_left' = calls_left - 1
    /\ CanAcquire
    /\ loc' = [loc EXCEPT ![w] = [op |-> "snapshot",
                                   snapshot |-> SnapshotValue]]
    /\ UNCHANGED <<cfg, poolVars, candleVars, lock, dbVars, clock, served, pc,
                   restarts_left, cacheVars>>

(***************************************************************************)
(* join (app.py) -> db.upsert_player                                        *)
(***************************************************************************)
\* An upsert that replaces the whole row.
UpsertReplace(tbl, code, nick, initial_cash, now) ==
    [tbl EXCEPT ![code] = [nick |-> nick, cash |-> initial_cash,
                           pos |-> Zero, created_at |-> now,
                           updated_at |-> now]]

upsert_player(tbl, code, nick, initial_cash, now) ==
    IF tbl[code] = NoRow
    THEN [tbl EXCEPT ![code] = [nick |-> nick, cash |-> initial_cash,
                                pos |-> Zero, created_at |-> now,
                                updated_at |-> now]]
    ELSE [tbl EXCEPT ![code].nick = nick, ![code].updated_at = now]

Join(w, code, nick) ==
    /\ pc[w] = "idle"
    /\ calls_left > 0
    /\ calls_left' = calls_left - 1
    /\ players' = upsert_player(players, code, nick, R(INITIAL_CASH), clock)
    /\ loc' = [loc EXCEPT ![w] = Returned([ok |-> TRUE, code |-> code,
                                            nick |-> nick])]
    /\ UNCHANGED <<cfg, poolVars, candleVars, lock, trades, candles,
                   market_state, clock, served, pc, restarts_left, cacheVars>>

(***************************************************************************)
(* The ticker thread: _run_loop = init_or_load, then _tick forever.         *)
(***************************************************************************)
\* db.get_last_candle(): the row with the greatest ts, or None.
get_last_candle ==
    IF DOMAIN candles = {} THEN None
    ELSE LET ts == CHOOSE t \in DOMAIN candles :
                      \A u \in DOMAIN candles : u <= t
         IN  <<"row", ts, candles[ts]>>

(***************************************************************************)
(* seed_history_if_needed, run by init_or_load before it takes the lock.    *)
(* Every statement on the store commits on its own, so the other threads    *)
(* run between any two of them.                                             *)
(***************************************************************************)
SeedCs == IF cfg.seed_candle_seconds < 1 THEN 1 ELSE cfg.seed_candle_seconds

\* The text _seed_tag formats from the seed settings.
_seed_tag ==
    Str(<<"v2", cfg.seed_seconds, cfg.seed_candle_seconds, cfg.seed_step_pct,
          cfg.start_price>>)

\* SELECT ts FROM candles ORDER BY ts ASC LIMIT 1: the row's ts, or None.
_get_earliest_candle_ts ==
    IF DOMAIN candles = {} THEN None
    ELSE <<"ts", CHOOSE t \in DOMAIN candles : \A u \in DOMAIN candles : t <= u>>

\* The values random.uniform(-1.0, 1.0) is taken to return.
SeedDraws == {RNeg(One), One}

\* range(target_start, end_ts, seed_cs) still has ts to visit.
SeedInRangeClosed(ts, end_ts) == ts <= end_ts

SeedInRange(ts, end_ts) == ts < end_ts

\* The clock is read, the target computed and the earliest candle looked up;
\* a history that reaches back far enough only has the tag written.
SeedStart ==
    /\ pc[Ticker] = "init"
    /\ cfg.seed_enabled
    /\ LET now          == clock
           target_start == ((now - cfg.seed_seconds) \div SeedCs) * SeedCs
           earliest     == _get_earliest_candle_ts
       IN  IF earliest # None /\ earliest[2] <= target_start
           THEN /\ market_state' = [market_state EXCEPT !.seeded_tag = _seed_tag]
                /\ pc' = [pc EXCEPT ![Ticker] = "seeded"]
                /\ loc' = loc
           ELSE /\ market_state' = market_state
                /\ pc' = [pc EXCEPT ![Ticker] = "seed_anchor"]
                /\ loc' = [loc EXCEPT ![Ticker] =
                              [op |-> "seed", ts |-> target_start,
                               earliest |-> earliest,
                               end_ts |-> IF earliest # None THEN earliest[2]
                                          ELSE (now \div SeedCs) * SeedCs]]
    /\ UNCHANGED <<cfg, poolVars, candleVars, lock, players, trades, candles,
                   clock, served, calls_left, restarts_left, cacheVars>>

\* The anchor: start_price, or the open of the earliest candle.
SeedAnchor ==
    /\ pc[Ticker] = "seed_anchor"
    /\ LET l == loc[Ticker]
           last_close == IF l.earliest # None /\ l.earliest[2] \in DOMAIN candles
                         THEN candles[l.earliest[2]].open
                         ELSE cfg.start_price
       IN  loc' = [loc EXCEPT ![Ticker] =
                      [op |-> "seed", ts |-> l.ts, end_ts |-> l.end_ts,
                       last_close |-> last_close]]
    /\ pc' = [pc EXCEPT ![Ticker] = "seed_loop"]
    /\ UNCHANGED <<cfg, poolVars, candleVars, lock, dbVars, clock, served,
                   calls_left, restarts_left, cacheVars>>

\* One turn of the loop: one candle of the random walk is upserted.
SeedCandle ==
    /\ pc[Ticker] = "seed_loop"
    /\ SeedInRange(loc[Ticker].ts, loc[Ticker].end_ts)
    /\ \E u \in SeedDraws :
          LET l     == loc[Ticker]
              step  == RMul(u, cfg.seed_step_pct)
              mr    == RMul(RDiv(RSub(cfg.start_price, l.last_close),
                                 cfg.start_price),
                            Frac(15, 1000))
              ret   == RAdd(step, mr)
              close == RMax(Frac(1, 10000),
                            RMul(l.last_close, RAdd(One, ret)))
              o     == l.last_close
              h     == RMax(o, close)
              lo    == RMin(o, close)
          IN  /\ candles' = upsert_candle(candles, l.ts, o, h, lo, close)
              /\ loc' = [loc EXCEPT ![Ticker] =
                             [l EXCEPT !.ts = l.ts + SeedCs,
                                       !.last_close = close]]
    /\ UNCHANGED <<cfg, poolVars, candleVars, lock, players, trades,
                   market_state, clock, served, pc, calls_left, restarts_left,
                   cacheVars>>

\* The loop is over: the tag is written.
SeedTag ==
    /\ pc[Ticker] = "seed_loop"
    /\ ~SeedInRange(loc[Ticker].ts, loc[Ticker].end_ts)
    /\ market_state' = [market_state EXCEPT !.seeded_tag = _seed_tag]
    /\ pc' = [pc EXCEPT ![Ticker] = "seeded"]
    /\ loc' = [loc EXCEPT ![Ticker] = Idle]
    /\ UNCHANGED <<cfg, poolVars, candleVars, lock, players, trades, candles,
                   clock, served, calls_left, restarts_left, cacheVars>>

\* init_or_load before it takes the lock: init_db, the seeder (which
\* returns at once when seed_enabled is off) and the read of the last candle.
InitOrLoadRead ==
    /\ pc[Ticker] = (IF cfg.seed_enabled THEN "seeded" ELSE "init")
    /\ loc' = [loc EXCEPT ![Ticker] = [op |-> "init_or_load",
                                        last |-> get_last_candle]]
    /\ pc' = [pc EXCEPT ![Ticker] = "init_wait"]
    /\ UNCHANGED <<cfg, poolVars, candleVars, lock, dbVars, clock, served, calls_left, restarts_left,
                   cacheVars>>

\* The pool init_or_load reloads, when all three stored values are there
\* and positive.
StoredPoolOk ==
    /\ _get_state_float("pool_x") # None
    /\ _get_state_float("pool_y") # None
    /\ _get_state_float("pool_k") # None
    /\ RPos(_get_state_float("pool_x"))
    /\ RPos(_get_state_float("pool_y"))
    /\ RPos(_get_state_float("pool_k"))

InitOrLoadLocked ==
    /\ pc[Ticker] = "init_wait"
    /\ CanAcquire
    /\ LET last == loc[Ticker].last
           p1 == IF last # None THEN last[3].close ELSE cfg.start_price
           ts == Bucket(clock)
           p2 == IF StoredPoolOk
                 THEN RDiv(_get_state_float("pool_y"), _get_state_float("pool_x"))
                 ELSE p1
       IN  /\ SetCandle(OpenCandle(ts, p1))
           /\ started' = (get_state("started") = Str("1"))
           /\ IF StoredPoolOk
              THEN /\ pool_x' = _get_state_float("pool_x")
                   /\ pool_y' = _get_state_float("pool_y")
                   /\ pool_k' = _get_state_float("pool_k")
              ELSE UNCHANGED <<pool_x, pool_y, pool_k>>
           /\ price' = p2
           /\ market_state' = [market_state EXCEPT !.price = Str(p2),
                                                   !.candle_ts = Str(ts)]
    /\ pc' = [pc EXCEPT ![Ticker] = "loop"]
    /\ loc' = [loc EXCEPT ![Ticker] = Idle]
    /\ served' = Loaded(pool_x', pool_y', pool_k', started')
    /\ UNCHANGED <<cfg, lock, players, trades, candles, clock, calls_left, restarts_left,
                   cacheVars>>

\* _tick reads the clock before it asks for the lock.
TickRead ==
    /\ pc[Ticker] = "loop"
    /\ loc' = [loc EXCEPT ![Ticker] = [op |-> "tick", now_s |-> clock]]
    /\ pc' = [pc EXCEPT ![Ticker] = "tick_wait"]
    /\ UNCHANGED <<cfg, poolVars, candleVars, lock, dbVars, clock, served, calls_left, restarts_left,
                   cacheVars>>

\* _tick under the lock: _touch_candle(now_s, price), then the price and
\* candle_ts are persisted.  With stopout_equity > 0 the tick goes on to
\* _liquidate_if_needed.
TickLocked ==
    /\ pc[Ticker] = "tick_wait"
    /\ CanAcquire
    /\ LET tc == _touch_candle(loc[Ticker].now_s, price)
       IN  /\ SetCandle(tc)
           /\ candles' = tc.candles
           /\ market_state' = [market_state EXCEPT !.price = Str(price),
                                                   !.candle_ts = Str(tc.ts)]
    /\ pc' = [pc EXCEPT ![Ticker] = IF RPos(cfg.stopout_equity)
                                     THEN "liq_select" ELSE "loop"]
    /\ loc' = [loc EXCEPT ![Ticker] = Idle]
    /\ UNCHANGED <<cfg, poolVars, lock, players, trades, clock, served, calls_left, restarts_left,
                   cacheVars>>

(***************************************************************************)
(* _liquidate_if_needed (run by the ticker after a tick).                   *)
(***************************************************************************)
\* The order in which SELECT ... FROM players returns the rows.
CodeOrder == <<"alice", "bob">>

\* SELECT code, cash, pos FROM players WHERE pos != 0
OpenPositions ==
    SelectSeq([i \in 1..Len(CodeOrder) |->
                  IF HasRow(CodeOrder[i])
                  THEN [code |-> CodeOrder[i], cash |-> players[CodeOrder[i]].cash,
                        pos |-> players[CodeOrder[i]].pos]
                  ELSE [code |-> CodeOrder[i], cash |-> Zero, pos |-> Zero]],
              LAMBDA r : ~RZero(r.pos))

\* The SELECT, made without the lock; no open position: return.
LiqSelect ==
    /\ pc[Ticker] = "liq_select"
    /\ IF OpenPositions = <<>>
       THEN /\ pc' = [pc EXCEPT ![Ticker] = "loop"]
            /\ UNCHANGED loc
       ELSE /\ pc' = [pc EXCEPT ![Ticker] = "liq_wait"]
            /\ loc' = [loc EXCEPT ![Ticker] = [op |-> "liquidate",
                                                rows |-> OpenPositions,
                                                now |-> clock]]
    /\ UNCHANGED <<cfg, poolVars, candleVars, lock, dbVars, clock, served, calls_left, restarts_left,
                   cacheVars>>

\* with self._lock: mark = self.price
LiqMark ==
    /\ pc[Ticker] = "liq_wait"
    /\ CanAcquire
    /\ loc' = [loc EXCEPT ![Ticker] = [op |-> "liquidate",
                                        rows |-> loc[Ticker].rows,
                                        now |-> loc[Ticker].now,
                                        mark |-> price]]
    /\ pc' = [pc EXCEPT ![Ticker] = "liq_rows"]
    /\ UNCHANGED <<cfg, poolVars, candleVars, lock, dbVars, clock, served, calls_left, restarts_left,
                   cacheVars>>

\* One turn of the loop over the selected rows: the row at or under the
\* stop-out level has its wallet zeroed (UPDATE), the others are passed
\* over; after the last row the function returns.
LiqUpdate ==
    /\ pc[Ticker] = "liq_rows"
    /\ LET l == loc[Ticker]
       IN  IF l.rows = <<>>
           THEN /\ pc' = [pc EXCEPT ![Ticker] = "loop"]
                /\ loc' = [loc EXCEPT ![Ticker] = Idle]
                /\ UNCHANGED players
           ELSE LET r == Head(l.rows)
                IN  IF RLe(_equity(r.cash, r.pos, l.mark), cfg.stopout_equity)
                    THEN /\ players' = UpdateWallet(players, r.code, Zero, Zero,
                                                    l.now)
                         /\ pc' = [pc EXCEPT ![Ticker] = "liq_insert"]
                         /\ UNCHANGED loc
                    ELSE /\ loc' = [loc EXCEPT ![Ticker].rows = Tail(l.rows)]
                         /\ UNCHANGED <<players, pc>>
    /\ UNCHANGED <<cfg, poolVars, candleVars, lock, trades, candles,
                   market_state, clock, served, calls_left, restarts_left,
                   cacheVars>>

\* The liquidation's trade row (INSERT), closing the position as it was
\* selected, at the mark.
LiqInsert ==
    /\ pc[Ticker] = "liq_insert"
    /\ LET l == loc[Ticker]
           r == Head(l.rows)
           qty == RAbs(r.pos)
       IN  /\ trades' = Append(trades,
                  TradeRow(r.code, l.now, IF RPos(r.pos) THEN "SELL" ELSE "BUY",
                           qty, l.mark, RMul(qty, l.mark), Zero, Zero, Zero))
           /\ loc' = [loc EXCEPT ![Ticker].rows = Tail(l.rows)]
    /\ pc' = [pc EXCEPT ![Ticker] = "liq_rows"]
    /\ UNCHANGED <<cfg, poolVars, candleVars, lock, players, candles,
                   market_state, clock, served, calls_left, restarts_left,
                   cacheVars>>

(***************************************************************************)
(* GET /api/trades (app.py): a reader of the store.                         *)
(***************************************************************************)
\* db.get_player(code): the row, or None.
get_player(code) == IF HasRow(code) THEN <<"row", players[code]>> ELSE None

\* _list_trades_recent(code, limit): the newest `limit` rows of the player,
\* oldest first.
_list_trades_recent(code, limit) ==
    LET mine == SelectSeq(trades, LAMBDA t : t.code = code)
        n == Len(mine)
    IN  IF n <= limit THEN mine ELSE SubSeq(mine, n - limit + 1, n)

\* _list_trades_asc(code): the player's rows by ascending id.
_list_trades_asc(code) == SelectSeq(trades, LAMBDA t : t.code = code)

\* abs(a) < 1e-12.  1e12 is the product of the two factors below, and for
\* integers n, d: n * 1e12 < d  iff  n <= ((d - 1) div 1e6) div 1e6.
TinyFactor == 1000000

\* A threshold that nothing is below.
TinyNever(a) == FALSE

Tiny(a) == Abs(a[1]) <= ((a[2] - 1) \div TinyFactor) \div TinyFactor

\* One turn of the loop of _compute_stats_from_trades over trade row t.
StatsStep(s, t) ==
    LET qty == t.qty
        px == t.price
    IN  IF t.side = "BUY"
        THEN IF ~RLt(s.pos, Zero)
             THEN LET new_pos == RAdd(s.pos, qty)
                  IN  [pos |-> new_pos,
                       avg |-> IF ~RZero(new_pos)
                               THEN RDiv(RAdd(RMul(s.pos, s.avg), RMul(qty, px)),
                                         new_pos)
                               ELSE Zero,
                       realized |-> RSub(s.realized, t.fee)]
             ELSE LET cover == RMin(qty, RAbs(s.pos))
                      pos1 == RAdd(s.pos, cover)
                      leftover == RSub(qty, cover)
                  IN  [pos |-> IF RPos(leftover) THEN leftover
                               ELSE IF Tiny(pos1) THEN Zero ELSE pos1,
                       avg |-> IF RPos(leftover) THEN px
                               ELSE IF Tiny(pos1) THEN Zero ELSE s.avg,
                       realized |-> RSub(RAdd(s.realized,
                                              RMul(RSub(s.avg, px), cover)),
                                         t.fee)]
        ELSE IF ~RPos(s.pos)
             THEN LET new_pos == RSub(s.pos, qty)
                      abs_old == RAbs(s.pos)
                      abs_new == RAbs(new_pos)
                  IN  [pos |-> new_pos,
                       avg |-> IF ~RZero(abs_new)
                               THEN RDiv(RAdd(RMul(abs_old, s.avg), RMul(qty, px)),
                                         abs_new)
                               ELSE Zero,
                       realized |-> RSub(s.realized, t.fee)]
             ELSE LET close == RMin(qty, s.pos)
                      pos1 == RSub(s.pos, close)
                      leftover == RSub(qty, close)
                  IN  [pos |-> IF RPos(leftover) THEN RNeg(leftover)
                               ELSE IF Tiny(pos1) THEN Zero ELSE pos1,
                       avg |-> IF RPos(leftover) THEN px
                               ELSE IF Tiny(pos1) THEN Zero ELSE s.avg,
                       realized |-> RSub(RAdd(s.realized,
                                              RMul(RSub(px, s.avg), close)),
                                         t.fee)]

RECURSIVE StatsFold(_, _)
StatsFold(s, rows) ==
    IF rows = <<>> THEN s ELSE StatsFold(StatsStep(s, Head(rows)), Tail(rows))

\* _compute_stats_from_trades(code), computed from the rows (the cache only
\* saves the recomputation while the newest id is unchanged).
_compute_stats_from_trades(code) ==
    StatsFold([pos |-> Zero, avg |-> Zero, realized |-> Zero],
              _list_trades_asc(code))

(***************************************************************************)
(* _compute_stats_from_trades with its memo (app.py), as GET /api/me and    *)
(* the leaderboard call it.  An entry is <<"entry", id, stats, at>>: the    *)
(* tuple the code stores, and the time at which it was stored.              *)
(***************************************************************************)
_STATS_CACHE_TTL_SEC == 2

\* SELECT COALESCE(MAX(id), 0) FROM trades WHERE code = ?
_last_trade_id(code) ==
    LET rows == _list_trades_asc(code)
    IN  IF rows = <<>> THEN 0 ELSE rows[Len(rows)].id

\* A test that takes any entry.
CacheFreshAny(cached, last_id) == TRUE

\* cached[0] == last_id
CacheFresh(cached, last_id) == cached[2] = last_id

\* now = time.time(); ttl_ok = (now - _STATS_CACHE_TS.get(code, 0.0)) <= TTL
StatsCall(w, code) ==
    /\ pc[w] = "idle"
    /\ calls_left > 0
    /\ calls_left' = calls_left - 1
    /\ loc' = [loc EXCEPT ![w] =
                  [op |-> "stats", code |-> code, now |-> clock,
                   ttl_ok |-> (clock - _STATS_CACHE_TS[code]
                                  <= _STATS_CACHE_TTL_SEC)]]
    /\ pc' = [pc EXCEPT ![w] = "st_last"]
    /\ UNCHANGED <<cfg, poolVars, candleVars, lock, dbVars, clock, served,
                   restarts_left, cacheVars>>

\* last_id = _last_trade_id(code)
StatsLastId(w) ==
    /\ pc[w] = "st_last"
    /\ loc' = [loc EXCEPT ![w] =
                  [op |-> "stats", code |-> loc[w].code, now |-> loc[w].now,
                   ttl_ok |-> loc[w].ttl_ok,
                   last_id |-> _last_trade_id(loc[w].code)]]
    /\ pc' = [pc EXCEPT ![w] = "st_cached"]
    /\ UNCHANGED <<cfg, poolVars, candleVars, lock, dbVars, clock, served,
                   calls_left, restarts_left, cacheVars>>

\* cached = _STATS_CACHE.get(code): returned when ttl_ok and its id is
\* last_id; otherwise the trades are to be listed.
StatsCached(w) ==
    /\ pc[w] = "st_cached"
    /\ LET l == loc[w]
           cached == _STATS_CACHE[l.code]
       IN  IF l.ttl_ok /\ cached # None /\ CacheFresh(cached, l.last_id)
           THEN /\ loc' = [loc EXCEPT ![w] =
                              [op |-> "stats_ret", hit |-> TRUE,
                               value |-> cached[3]]]
                /\ pc' = [pc EXCEPT ![w] = "idle"]
           ELSE /\ loc' = loc
                /\ pc' = [pc EXCEPT ![w] = "st_list"]
    /\ UNCHANGED <<cfg, poolVars, candleVars, lock, dbVars, clock, served,
                   calls_left, restarts_left, cacheVars>>

\* trades = _list_trades_asc(code), and the replay of these rows.
StatsList(w) ==
    /\ pc[w] = "st_list"
    /\ loc' = [loc EXCEPT ![w] =
                  [op |-> "stats", code |-> loc[w].code, now |-> loc[w].now,
                   last_id |-> loc[w].last_id,
                   value |-> _compute_stats_from_trades(loc[w].code)]]
    /\ pc' = [pc EXCEPT ![w] = "st_store"]
    /\ UNCHANGED <<cfg, poolVars, candleVars, lock, dbVars, clock, served,
                   calls_left, restarts_left, cacheVars>>

\* _STATS_CACHE[code] = (last_id, avg, realized, pos)
StatsStore(w) ==
    /\ pc[w] = "st_store"
    /\ _STATS_CACHE' = [_STATS_CACHE EXCEPT ![loc[w].code] =
                           <<"entry", loc[w].last_id, loc[w].value, clock>>]
    /\ pc' = [pc EXCEPT ![w] = "st_ts"]
    /\ UNCHANGED <<cfg, poolVars, candleVars, lock, dbVars, clock, served,
                   loc, calls_left, restarts_left, _STATS_CACHE_TS>>

\* _STATS_CACHE_TS[code] = now, and the return.
StatsStoreTs(w) ==
    /\ pc[w] = "st_ts"
    /\ _STATS_CACHE_TS' = [_STATS_CACHE_TS EXCEPT ![loc[w].code] = loc[w].now]
    /\ loc' = [loc EXCEPT ![w] = [op |-> "stats_ret", hit |-> FALSE,
                                  value |-> loc[w].value]]
    /\ pc' = [pc EXCEPT ![w] = "idle"]
    /\ UNCHANGED <<cfg, poolVars, candleVars, lock, dbVars, clock, served,
                   calls_left, restarts_left, _STATS_CACHE>>

\* POST /api/trade as far as the memo sees it: engine.market_buy or
\* market_sell accepts the trade of code and inserts its row.
TradeInserted(w, code, side, qty, tprice) ==
    /\ pc[w] = "idle"
    /\ calls_left > 0
    /\ calls_left' = calls_left - 1
    /\ trades' = Append(trades, TradeRow(code, clock, side, qty, tprice,
                                         RMul(qty, tprice), Zero, Zero, Zero))
    /\ loc' = [loc EXCEPT ![w] = [op |-> "trade", code |-> code]]
    /\ pc' = [pc EXCEPT ![w] = "tr_inval"]
    /\ UNCHANGED <<cfg, poolVars, candleVars, lock, players, candles,
                   market_state, clock, served, restarts_left, cacheVars>>

\* ... and the handler goes on: _STATS_CACHE_TS[code] = 0.0
TradeInvalidate(w) ==
    /\ pc[w] = "tr_inval"
    /\ _STATS_CACHE_TS' = [_STATS_CACHE_TS EXCEPT ![loc[w].code] = 0]
    /\ loc' = [loc EXCEPT ![w] = Idle]
    /\ pc' = [pc EXCEPT ![w] = "idle"]
    /\ UNCHANGED <<cfg, poolVars, candleVars, lock, dbVars, clock, served,
                   calls_left, restarts_left, _STATS_CACHE>>

\* The handler up to its first read: an unknown player is answered 404.
TradesGetPlayer(w, code) ==
    /\ pc[w] = "idle"
    /\ calls_left > 0
    /\ calls_left' = calls_left - 1
    /\ IF get_player(code) = None
       THEN /\ loc' = [loc EXCEPT ![w] = Returned(
                           Err("trades", "Jogador nao encontrado."))]
            /\ UNCHANGED pc
       ELSE /\ loc' = [loc EXCEPT ![w] = [op |-> "trades", code |-> code,
                                           p |-> get_player(code)[2]]]
            /\ pc' = [pc EXCEPT ![w] = "tr_list"]
    /\ UNCHANGED <<cfg, poolVars, candleVars, lock, dbVars, clock, served, restarts_left,
                   cacheVars>>

\* The listing, read after the wallet; the reply carries the listing (the
\* wallet read is kept beside it to compare the two).
TradesList(w) ==
    /\ pc[w] = "tr_list"
    /\ loc' = [loc EXCEPT ![w] = [op |-> "listed", code |-> loc[w].code,
                                   p |-> loc[w].p,
                                   rows |-> _list_trades_recent(loc[w].code, 50)]]
    /\ pc' = [pc EXCEPT ![w] = "idle"]
    /\ UNCHANGED <<cfg, poolVars, candleVars, lock, dbVars, clock, served, calls_left, restarts_left,
                   cacheVars>>

(***************************************************************************)
(* Store failures inside an accepted trade.                                 *)
(***************************************************************************)
\* The keys _set_pool_state writes, in its order.
StateKeys == <<"pool_x", "pool_y", "pool_k", "price", "candle_ts", "started">>

\* The key-value table after the first n of those writes.
PartialPoolState(ms, new, n) ==
    [key \in DOMAIN ms |->
        IF \E i \in 1..n : StateKeys[i] = key THEN new[key] ELSE ms[key]]

\* The wallet UPDATE raises: the exception leaves the with-block (the lock
\* is released), the connection is closed, the caller gets the error.
FaultUpdate(w) ==
    /\ pc[w] \in {"buy_margin", "sell_margin"}
    /\ lock = w
    /\ _margin_ok(loc[w].cash_after, loc[w].pos_after, price)
    /\ lock' = "none"
    /\ loc' = [loc EXCEPT ![w] = Returned(Err("store", "sqlite3.Error"))]
    /\ pc' = [pc EXCEPT ![w] = "idle"]
    /\ UNCHANGED <<cfg, poolVars, candleVars, dbVars, clock, served, calls_left, restarts_left,
                   cacheVars>>

\* A later write raises.  stage 0: the trade INSERT; stage 1: the candle
\* upsert of _touch_candle (made only when the bucket changed); stage 2 + n:
\* the write of _set_pool_state that follows n successful ones.
FaultStore(w, stage) ==
    /\ pc[w] \in {"buy_insert", "sell_insert"}
    /\ lock = w
    /\ stage = 1 => Bucket(loc[w].now) # candle_ts
    /\ LET l == loc[w]
           tc == _touch_candle(l.now, price)
       IN  /\ trades' = IF stage = 0 THEN trades ELSE Append(trades, RowOf(l))
           /\ IF stage <= 1
              THEN UNCHANGED <<candleVars, candles, market_state>>
              ELSE /\ SetCandle(tc)
                   /\ candles' = tc.candles
                   /\ market_state' = PartialPoolState(market_state,
                          SetPoolStateOf(market_state, pool_x, pool_y, pool_k,
                                         price, tc.ts, started), stage - 2)
    /\ lock' = "none"
    /\ loc' = [loc EXCEPT ![w] = Returned(Err("store", "sqlite3.Error"))]
    /\ pc' = [pc EXCEPT ![w] = "idle"]
    /\ UNCHANGED <<cfg, poolVars, players, clock, served, calls_left, restarts_left,
                   cacheVars>>

\* A second passes.
Advance ==
    /\ clock < MaxClock
    /\ clock' = clock + 1
    /\ UNCHANGED <<cfg, poolVars, candleVars, lock, dbVars, pc, loc, calls_left, restarts_left, served,
                   cacheVars>>

\* The server process is stopped (at any point: nothing runs on shutdown and
\* every store statement has committed on its own) and started again:
\* a new MarketEngine from __init__, no handler in progress, the ticker
\* thread about to run init_or_load, the store as it was left.
Restart ==
    /\ restarts_left > 0
    /\ restarts_left' = restarts_left - 1
    /\ pool_x' = Zero /\ pool_y' = Zero /\ pool_k' = Zero
    /\ price' = cfg.start_price
    /\ started' = FALSE
    /\ SetCandle(OpenCandle(0, cfg.start_price))
    /\ lock' = "none"
    /\ pc' = [t \in Threads |-> IF t = Ticker THEN "init" ELSE "idle"]
    /\ loc' = [t \in Threads |-> Idle]
    /\ served' = Loaded(Zero, Zero, Zero, FALSE)
    /\ _STATS_CACHE' = [c \in Codes |-> None]
    /\ _STATS_CACHE_TS' = [c \in Codes |-> 0]
    /\ UNCHANGED <<cfg, dbVars, clock, calls_left>>

(***************************************************************************)
(* Spec: the engine with its ticker and two request workers, all within     *)
(* one second of wall-clock time.                                           *)
(***************************************************************************)
Next ==
    \/ \E w \in Workers, i \in BuyInputs : MarketBuyCall(w, i[1], i[2])
    \/ \E w \in Workers : MarketBuyEnter(w)
    \/ \E w \in Workers : MarketBuyMargin(w)
    \/ \E w \in Workers : MarketBuyCommit(w)
    \/ \E w \in Workers : MarketBuyReturn(w)
    \/ \E w \in Workers, i \in SellInputs : MarketSellCall(w, i[1], i[2])
    \/ \E w \in Workers : MarketSellEnter(w)
    \/ \E w \in Workers : MarketSellMargin(w)
    \/ \E w \in Workers : MarketSellCommit(w)
    \/ \E w \in Workers : MarketSellReturn(w)
    \/ \E w \in Workers : StartGameCall(w)
    \/ \E w \in Workers : StartGameEnter(w)
    \/ \E w \in Workers : StartGameSnapshot(w)
    \/ InitOrLoadRead
    \/ InitOrLoadLocked
    \/ TickRead
    \/ TickLocked

Spec == Init /\ [][Next]_vars

(***************************************************************************)
(* SpecRestart: the same, with the server process restarted on the way.     *)
(***************************************************************************)
NextRestart ==
    \/ Next
    \/ Restart

SpecRestart == Init /\ [][NextRestart]_vars

(***************************************************************************)
(* SpecSerial: Spec with the history of served calls kept.                  *)
(***************************************************************************)
InitSerial ==
    /\ cfg \in Configs
    /\ InitEngine
    /\ InitStore
    /\ InitThreads
    /\ served = [keep |-> TRUE, calls |-> <<>>]

SpecSerial == InitSerial /\ [][Next]_vars

(***************************************************************************)
(* SpecFault: the same, where a store write of a trade may raise.           *)
(***************************************************************************)
FaultStages == 0..7

NextFault ==
    \/ Next
    \/ \E w \in Workers : FaultUpdate(w)
    \/ \E w \in Workers, stage \in FaultStages : FaultStore(w, stage)

SpecFault == Init /\ [][NextFault]_vars

(***************************************************************************)
(* SpecRead: the same, with GET /api/trades among the workers' calls.       *)
(***************************************************************************)
NextRead ==
    \/ Next
    \/ \E w \in Workers, code \in Codes : TradesGetPlayer(w, code)
    \/ \E w \in Workers : TradesList(w)

SpecRead == Init /\ [][NextRead]_vars

(***************************************************************************)
(* SpecSeed: an engine whose seeder is on, over more than one second, the   *)
(* candle table empty or holding one candle of an earlier run.              *)
(***************************************************************************)
CfgSeeded == [CfgDeployed EXCEPT !.seed_enabled = TRUE]

\* The number of calls the workers make while and after the seeder runs.
SeedCalls == 2

InitSeed ==
    /\ cfg = CfgSeeded
    /\ InitEngine
    /\ players = [c \in Codes |-> IF c = "alice" THEN NewPlayer("old", 0) ELSE NoRow]
    /\ trades = <<>>
    /\ \E old \in {[open |-> R(96), high |-> R(100), low |-> R(96), close |-> R(100)]} :
          candles \in {<<>>, 0 :> old, (0 - 4) :> old}
    /\ market_state = StartedState
    /\ clock = 1
    /\ pc = [t \in Threads |-> IF t = Ticker THEN "init" ELSE "idle"]
    /\ loc = [t \in Threads |-> Idle]
    /\ calls_left = SeedCalls
    /\ restarts_left = 0
    /\ _STATS_CACHE = [c \in Codes |-> None]
    /\ _STATS_CACHE_TS = [c \in Codes |-> 0]
    /\ served = NoHistory

\* The trades of the workers are one buy and one sell that are accepted.
NextSeed ==
    \/ \E w \in Workers : MarketBuyCall(w, "alice", R(1000))
    \/ \E w \in Workers : MarketBuyEnter(w)
    \/ \E w \in Workers : MarketBuyMargin(w)
    \/ \E w \in Workers : MarketBuyCommit(w)
    \/ \E w \in Workers : MarketBuyReturn(w)
    \/ \E w \in Workers : MarketSellCall(w, "alice", R(3))
    \/ \E w \in Workers : MarketSellEnter(w)
    \/ \E w \in Workers : MarketSellMargin(w)
    \/ \E w \in Workers : MarketSellCommit(w)
    \/ \E w \in Workers : MarketSellReturn(w)
    \/ \E w \in Workers : StartGameCall(w)
    \/ \E w \in Workers : StartGameEnter(w)
    \/ \E w \in Workers : StartGameSnapshot(w)
    \/ InitOrLoadRead
    \/ InitOrLoadLocked
    \/ TickRead
    \/ TickLocked
    \/ SeedStart
    \/ SeedAnchor
    \/ SeedCandle
    \/ SeedTag
    \/ Advance

SpecSeed == InitSeed /\ [][NextSeed]_vars

(***************************************************************************)
(* SpecStats: the trade log of a player grows by any rows with qty > 0 and  *)
(* price > 0, for _compute_stats_from_trades to replay.                     *)
(***************************************************************************)
MaxRows == 4

\* A row of the given side, quantity and price is inserted for alice.
LogRow(side, qty, tprice) ==
    /\ Len(trades) < MaxRows
    /\ trades' = Append(trades, TradeRow("alice", clock, side, qty, tprice,
                                         RMul(qty, tprice), Zero, Zero, Zero))
    /\ UNCHANGED <<cfg, poolVars, candleVars, lock, players, candles,
                   market_state, clock, pc, loc, calls_left, restarts_left,
                   served, cacheVars>>

NextStats ==
    \E side \in {"BUY", "SELL"}, qty \in {R(1), R(2), Frac(1, 3)},
       tprice \in {R(100), R(50)} :
        LogRow(side, qty, tprice)

InitStats ==
    /\ cfg = CfgDeployed
    /\ InitEngine
    /\ InitStore
    /\ market_state = EmptyState
    /\ InitThreads
    /\ served = NoHistory

SpecStats == InitStats /\ [][NextStats]_vars

(***************************************************************************)
(* SpecCache: the stats memo of app.py over a trade table that grows by the *)
(* rows of accepted trades (each followed by the handler's invalidation)    *)
(* and of liquidations (followed by none), over the seconds in which an     *)
(* entry ages beyond its time to live.                                      *)
(***************************************************************************)
Epoch      == 10
MaxElapse  == 3
CacheCalls == 3
CacheRows  == 2

Elapse ==
    /\ clock < Epoch + MaxElapse
    /\ clock' = clock + 1
    /\ UNCHANGED <<cfg, poolVars, candleVars, lock, dbVars, pc, loc,
                   calls_left, restarts_left, served, cacheVars>>

InitCache ==
    /\ cfg = CfgDeployed
    /\ InitEngine
    /\ InitStore
    /\ market_state = StartedState
    /\ clock = Epoch
    /\ pc = [t \in Threads |-> IF t = Ticker THEN "init" ELSE "idle"]
    /\ loc = [t \in Threads |-> Idle]
    /\ calls_left = CacheCalls
    /\ restarts_left = 0
    /\ _STATS_CACHE = [c \in Codes |-> None]
    /\ _STATS_CACHE_TS = [c \in Codes |-> 0]
    /\ served = NoHistory

NextCache ==
    \/ \E w \in Workers :
          Len(trades) < CacheRows /\ TradeInserted(w, "alice", "BUY", R(2), R(100))
    \/ \E w \in Workers : TradeInvalidate(w)
    \/ Len(trades) < CacheRows /\ LogRow("SELL", R(1), R(50))
    \/ \E w \in Workers : StatsCall(w, "alice")
    \/ \E w \in Workers : StatsLastId(w)
    \/ \E w \in Workers : StatsCached(w)
    \/ \E w \in Workers : StatsList(w)
    \/ \E w \in Workers : StatsStore(w)
    \/ \E w \in Workers : StatsStoreTs(w)
    \/ Elapse

SpecCache == InitCache /\ [][NextCache]_vars

(***************************************************************************)
(* SpecAgg: _aggregate_candles (app.py) applied to the rows of a candle     *)
(* table that holds candles at any of the seconds 0..MaxTs.                 *)
(***************************************************************************)
MaxTs == 4

\* The loop of _aggregate_candles over the rows raw, from the group at hand
\* (cur: None or its bucket and o, h, l, c) and the candles put out so far;
\* at the end of the rows the group at hand is put out.
RECURSIVE AggLoop(_, _, _, _)
AggLoop(cur, out, raw, tf) ==
    IF raw = <<>>
    THEN IF cur = None THEN out
         ELSE Append(out, [time |-> cur[2], open |-> cur[3], high |-> cur[4],
                           low |-> cur[5], close |-> cur[6]])
    ELSE LET r == Head(raw)
             bucket == (r.ts \div tf) * tf
         IN  IF cur = None
             THEN AggLoop(<<"group", bucket, r.open, r.high, r.low, r.close>>,
                          out, Tail(raw), tf)
             ELSE IF bucket # cur[2]
             THEN AggLoop(<<"group", bucket, r.open, r.high, r.low, r.close>>,
                          Append(out, [time |-> cur[2], open |-> cur[3],
                                       high |-> cur[4], low |-> cur[5],
                                       close |-> cur[6]]),
                          Tail(raw), tf)
             ELSE AggLoop(<<"group", cur[2], cur[3], RMax(cur[4], r.high),
                            RMin(cur[5], r.low), r.close>>,
                          out, Tail(raw), tf)

\* An aggregation that takes every second for a bucket.
AggregatePerSecond(raw, tf_seconds) ==
    IF raw = <<>> THEN <<>> ELSE AggLoop(None, <<>>, raw, 1)

\* An aggregation that names every candle by the end of its bucket.
AggregateByBucketEnd(raw, tf_seconds) ==
    LET o == AggLoop(None, <<>>, raw, tf_seconds)
    IN  [j \in DOMAIN o |-> [o[j] EXCEPT !.time = @ + tf_seconds]]

\* r["ts"] of a row that has no key "ts" raises KeyError.
MissingTs(raw) == \E i \in 1..Len(raw) : "ts" \notin DOMAIN raw[i]

_aggregate_candles(raw, tf_seconds) ==
    IF raw = <<>> THEN <<>>
    ELSE IF MissingTs(raw)
    THEN Err("candles", "KeyError: 'ts'")
    ELSE AggLoop(None, <<>>, raw, IF tf_seconds < 1 THEN 1 ELSE tf_seconds)

\* The candles out as rows: each candle's "time" under the key "ts".
AsRows(out) ==
    [j \in DOMAIN out |->
        [ts |-> out[j].time, open |-> out[j].open, high |-> out[j].high,
         low |-> out[j].low, close |-> out[j].close]]

\* The rows of the table, by ascending ts, are aggregated at tf; the worker
\* keeps the rows, tf and the result.
AggregateRows(w, tf) ==
    /\ pc[w] = "idle"
    /\ calls_left > 0
    /\ calls_left' = calls_left - 1
    /\ LET order == SelectSeq([i \in 1..(MaxTs + 1) |-> i - 1],
                              LAMBDA ts : ts \in DOMAIN candles)
           raw == [i \in DOMAIN order |->
                      [ts |-> order[i], open |-> candles[order[i]].open,
                       high |-> candles[order[i]].high,
                       low |-> candles[order[i]].low,
                       close |-> candles[order[i]].close]]
       IN  loc' = [loc EXCEPT ![w] =
                      [op |-> "candles", raw |-> raw, tf |-> tf,
                       out |-> _aggregate_candles(raw, tf)]]
    /\ UNCHANGED <<cfg, poolVars, candleVars, lock, dbVars, clock, served, pc,
                   restarts_left, cacheVars>>

\* The result of an aggregation is aggregated again at the same tf: as it
\* is (candles with the key "time"), or with its candles turned into rows.
\* The worker keeps whether the call raised, and what it returned if not.
ReAggregate(w, as_rows) ==
    /\ pc[w] = "idle"
    /\ loc[w].op = "candles"
    /\ calls_left > 0
    /\ calls_left' = calls_left - 1
    /\ LET rows == IF as_rows THEN AsRows(loc[w].out) ELSE loc[w].out
       IN  loc' = [loc EXCEPT ![w] =
                      [op |-> "candles_again", first |-> loc[w].out,
                       tf |-> loc[w].tf, as_rows |-> as_rows,
                       raised |-> MissingTs(rows),
                       again |-> IF MissingTs(rows) THEN <<>>
                                 ELSE _aggregate_candles(rows, loc[w].tf)]]
    /\ UNCHANGED <<cfg, poolVars, candleVars, lock, dbVars, clock, served, pc,
                   restarts_left, cacheVars>>

\* The table holds, at any of the seconds 0..MaxTs, any of three candles.
InitAgg ==
    /\ cfg = CfgDeployed
    /\ InitEngine
    /\ players = [c \in Codes |-> NoRow]
    /\ trades = <<>>
    /\ \E tss \in SUBSET (0..MaxTs) :
          candles \in [tss -> {[open |-> R(2), high |-> R(3), low |-> R(1),
                                close |-> R(2)],
                               [open |-> R(2), high |-> R(5), low |-> R(2),
                                close |-> R(4)],
                               [open |-> R(4), high |-> R(4), low |-> R(0),
                                close |-> R(1)]}]
    /\ market_state = EmptyState
    /\ InitThreads
    /\ served = NoHistory

NextAgg ==
    \/ \E w \in Workers, tf \in {1, 2, 3} : AggregateRows(w, tf)
    \/ \E w \in Workers, as_rows \in BOOLEAN : ReAggregate(w, as_rows)

SpecAgg == InitAgg /\ [][NextAgg]_vars

(***************************************************************************)
(* SpecSnap: Spec with requests that take a snapshot of the engine.         *)
(***************************************************************************)
NextSnap ==
    \/ Next
    \/ \E w \in Workers : Snapshot(w)

SpecSnap == Init /\ [][NextSnap]_vars

(***************************************************************************)
(* SpecFlip: the trade log of a player grows by rows that carry a fee, with *)
(* quantities that close a position exactly or cross it.                    *)
(***************************************************************************)
FlipRows == 3

LogRowFee(side, qty, tprice, fee) ==
    /\ Len(trades) < FlipRows
    /\ trades' = Append(trades, TradeRow("alice", clock, side, qty, tprice,
                                         RMul(qty, tprice), fee, Zero, Zero))
    /\ UNCHANGED <<cfg, poolVars, candleVars, lock, players, candles,
                   market_state, clock, pc, loc, calls_left, restarts_left,
                   served, cacheVars>>

NextFlip ==
    \E side \in {"BUY", "SELL"}, qty \in {R(3), R(5), R(8)},
       tprice \in {R(100), R(110)}, fee \in {Zero, One} :
        LogRowFee(side, qty, tprice, fee)

SpecFlip == InitStats /\ [][NextFlip]_vars

(***************************************************************************)
(* SpecFlat: leverage_max = 1, min_equity = 0, fee_rate = 0; alice, flat    *)
(* with cash 10000, buys for half, nearly all, all and more than her cash.  *)
(***************************************************************************)
CfgUnlevered == MkConfig(Zero, One, Zero, Zero)

InitFlat ==
    /\ cfg = CfgUnlevered
    /\ InitEngine
    /\ players = [c \in Codes |-> IF c = "alice" THEN NewPlayer("old", 0)
                                  ELSE NoRow]
    /\ trades = <<>>
    /\ candles = <<>>
    /\ market_state = StartedState
    /\ InitThreads
    /\ served = NoHistory

NextFlat ==
    \/ \E w \in Workers, usd_in \in {R(5000), R(9992), R(10000), R(10008)} :
          MarketBuyCall(w, "alice", usd_in)
    \/ \E w \in Workers : MarketBuyEnter(w)
    \/ \E w \in Workers : MarketBuyMargin(w)
    \/ \E w \in Workers : MarketBuyCommit(w)
    \/ \E w \in Workers : MarketBuyReturn(w)
    \/ InitOrLoadRead
    \/ InitOrLoadLocked
    \/ TickRead
    \/ TickLocked

SpecFlat == InitFlat /\ [][NextFlat]_vars

(***************************************************************************)
(* SpecPair: two players with wallets on a started pool; alice sells short, *)
(* bob buys.  The leverage cap is scaled to the pool (1000 USD against      *)
(* 10000 of cash) so that alice's short is close to it.                     *)
(***************************************************************************)
CfgShortCap == MkConfig(Zero, Frac(1, 50), Zero, Zero)

InitPair ==
    /\ cfg = CfgShortCap
    /\ InitEngine
    /\ players = [c \in Codes |-> NewPlayer("old", 0)]
    /\ trades = <<>>
    /\ candles = <<>>
    /\ market_state = StartedState
    /\ InitThreads
    /\ served = NoHistory

NextPair ==
    \/ \E w \in Workers : MarketSellCall(w, "alice", R(3))
    \/ \E w \in Workers : MarketSellEnter(w)
    \/ \E w \in Workers : MarketSellMargin(w)
    \/ \E w \in Workers : MarketSellCommit(w)
    \/ \E w \in Workers : MarketSellReturn(w)
    \/ \E w \in Workers : MarketBuyCall(w, "bob", R(100))
    \/ \E w \in Workers : MarketBuyEnter(w)
    \/ \E w \in Workers : MarketBuyMargin(w)
    \/ \E w \in Workers : MarketBuyCommit(w)
    \/ \E w \in Workers : MarketBuyReturn(w)
    \/ InitOrLoadRead
    \/ InitOrLoadLocked
    \/ TickRead
    \/ TickLocked

SpecPair == InitPair /\ [][NextPair]_vars

(***************************************************************************)
(* SpecLiq: an engine whose stop-out is on, with join among the calls.      *)
(***************************************************************************)
CfgStopout == MkConfig(Zero, R(3), Zero, R(2 * INITIAL_CASH))

InitLiq ==
    /\ cfg = CfgStopout
    /\ InitEngine
    /\ InitStore
    /\ InitThreads
    /\ served = NoHistory

NextLiq ==
    \/ Next
    \/ \E w \in Workers, code \in Codes, nick \in Nicks : Join(w, code, nick)
    \/ LiqSelect
    \/ LiqMark
    \/ LiqUpdate
    \/ LiqInsert

SpecLiq == InitLiq /\ [][NextLiq]_vars

(***************************************************************************)
(* Properties.                                                              *)
(***************************************************************************)
MarginRefusal == "margem insuficiente / alavancagem excedida"

Refused(w, msg) ==
    /\ loc[w].op = "returned"
    /\ ~loc[w].ok
    /\ loc[w].error = msg

MidTrade(w) ==
    pc[w] \in {"buy_margin", "buy_insert", "sell_margin", "sell_insert"}

\* C1: every call to start_game returns and releases the lock, also when the
\* engine is already started with positive reserves.  Stated on finite runs:
\* no start_game call is ever inside its with-block, holding the lock, with
\* its nested snapshot() still to take that same lock (from there neither
\* the call nor any other user of the lock can go on).
C1_StartGameReturns ==
    \A w \in Workers : ~(pc[w] = "sg_inner" /\ lock = w)

\* The step in which worker w's market_buy / market_sell returns ok=false.
RejectedTrade(w) ==
    \/ \E i \in BuyInputs : ~RPos(i[2]) /\ MarketBuyCall(w, i[1], i[2])
    \/ \E i \in SellInputs : ~RPos(i[2]) /\ MarketSellCall(w, i[1], i[2])
    \/ pc'[w] = "idle" /\ (MarketBuyEnter(w) \/ MarketSellEnter(w))
    \/ pc'[w] = "idle" /\ (MarketBuyMargin(w) \/ MarketSellMargin(w))

\* What the call of worker w found when it was made (for a call turned down
\* at the margin check: when it took the lock).
PreOf(w) == IF MidTrade(w) THEN loc[w].pre ELSE PreState

LeftAs(pre) ==
    /\ pool_x' = pre.pool_x /\ pool_y' = pre.pool_y /\ pool_k' = pre.pool_k
    /\ price' = pre.price
    /\ <<candle_ts', candle_o', candle_h', candle_l', candle_c'>> = pre.candle
    /\ \A c \in Codes :
          pre.wallets[c] = IF players'[c] = NoRow THEN <<>>
                           ELSE <<players'[c].cash, players'[c].pos>>
    /\ Len(trades') = pre.ntrades

\* C2: a market_buy or market_sell that returns ok=false leaves pool_x,
\* pool_y, pool_k, price, the live candle, every wallet's cash and pos and
\* the number of trade rows equal to their pre-call values.
C2_RejectionPurity ==
    [][\A w \in Workers : RejectedTrade(w) => LeftAs(PreOf(w))]_vars

\* The step in which a store write of worker w's accepted trade raises.
FailedWrite(w) ==
    \/ FaultUpdate(w)
    \/ \E stage \in FaultStages : FaultStore(w, stage)

\* C3: when a persistence step of an accepted trade raises, the in-memory
\* pool and price, the wallets, the trade table and the persisted engine
\* state are all left as they were before the call.
C3_AllOrNothing ==
    [][\A w \in Workers :
          FailedWrite(w) => /\ LeftAs(loc[w].pre)
                            /\ market_state' = loc[w].pre.state]_vars

\* The pool start_game seeds at the start price.
SeededPool ==
    LET y == RMax(R(1000), cfg.initial_usd_liquidity)
        x == RDiv(y, cfg.start_price)
    IN  [x |-> x, y |-> y, k |-> RMul(x, y)]

\* The engine as constructed, over the store as it was then: no pool, not
\* started, every joined player's wallet fresh, no trade rows.
Unloaded ==
    [x |-> Zero, y |-> Zero, k |-> Zero, started |-> FALSE,
     wallets |-> [c \in Codes |->
                     IF HasRow(c) THEN <<R(INITIAL_CASH), Zero>> ELSE <<>>],
     rows |-> <<>>]

\* What a committed trade leaves in its row, apart from its id and time.
RowContent(code, q) ==
    [code |-> code, side |-> q.side, qty |-> q.qty, price |-> q.trade_price,
     notional |-> q.notional, fee |-> q.fee,
     cash_after |-> q.cash_after, pos_after |-> q.pos_after]

\* One entry of the history executed alone, start to end, on the state st:
\* a pool load, or a trade call, which is refused before the pool is
\* touched, refused at the margin check (the pool put back), or committed.
SerialStep(st, c) ==
    IF c.op = "LOAD"
    THEN [st EXCEPT !.x = c.x, !.y = c.y, !.k = c.k, !.started = c.started]
    ELSE IF ~st.started \/ ~RPos(st.x) \/ ~RPos(st.y) \/ ~RPos(st.k) THEN st
    ELSE IF st.wallets[c.code] = <<>> THEN st
    ELSE
      LET cash == st.wallets[c.code][1]
          pos == st.wallets[c.code][2]
          q == IF c.op = "BUY"
               THEN BuyMath(st.x, st.y, st.k, cash, pos, c.amt)
               ELSE SellMath(st.x, st.y, st.k, cash, pos, c.amt)
      IN  IF ~q.ok THEN st
          ELSE IF ~_margin_ok(q.cash_after, q.pos_after, RDiv(q.y_new, q.x_new))
          THEN LET r == IF c.op = "BUY"
                        THEN BuyRevert(q.x_new, q.y_new, q)
                        ELSE SellRevert(q.x_new, q.y_new, q)
               IN  [st EXCEPT !.x = r.pool_x, !.y = r.pool_y]
          ELSE [st EXCEPT !.x = q.x_new, !.y = q.y_new,
                          !.wallets[c.code] = <<q.cash_after, q.pos_after>>,
                          !.rows = Append(@, RowContent(c.code, q))]

\* The calls run one at a time, in the given order.
RECURSIVE SerialRun(_, _)
SerialRun(st, calls) ==
    IF calls = <<>> THEN st
    ELSE SerialRun(SerialStep(st, Head(calls)), Tail(calls))

RowsAsServed ==
    [i \in 1..Len(trades) |->
        [code |-> trades[i].code, side |-> trades[i].side,
         qty |-> trades[i].qty, price |-> trades[i].price,
         notional |-> trades[i].notional, fee |-> trades[i].fee,
         cash_after |-> trades[i].cash_after,
         pos_after |-> trades[i].pos_after]]

\* C4: concurrently issued trades leave the pool, the wallets and the trade
\* rows that executing the same calls one at a time, in the order they took
\* the lock, leaves; each reads what its predecessor left, and no cash goes
\* negative.  Checked whenever the lock is free.
C4_Serialized ==
    lock = "none" =>
        LET r == SerialRun(Unloaded, served.calls)
        IN  /\ pool_x = r.x /\ pool_y = r.y /\ pool_k = r.k
            /\ RowsAsServed = r.rows
            /\ \A c \in Codes :
                  /\ WalletOf(c) = r.wallets[c]
                  /\ HasRow(c) => ~RLt(players[c].cash, Zero)

\* Both workers' calls were in flight together and both have committed.
C4_Witness ==
    /\ lock = "none"
    /\ pc["w1"] \in {"buy_ret", "sell_ret"}
    /\ pc["w2"] \in {"buy_ret", "sell_ret"}
    /\ Len(trades) >= 2

Quiescent ==
    /\ \A w \in Workers : ~MidTrade(w)
    /\ pc[Ticker] \notin {"liq_wait", "liq_rows", "liq_insert"}

\* C5: whenever no trade or liquidation is mid-execution, replaying a
\* player's trade rows in ascending id order through the PnL reconstructor
\* yields the pos stored in the player's wallet.
C5_ReplayEquality ==
    Quiescent =>
        \A c \in Codes :
            HasRow(c) => _compute_stats_from_trades(c).pos = players[c].pos

\* C6: the wallet a reader gets and the trade listing it reads next agree:
\* the wallet is the untouched one or the cash_after / pos_after of a row
\* of the listing; no wallet reflects a trade whose row is not visible.
C6_WalletWithRow ==
    \A w \in Workers :
        loc[w].op = "listed" =>
            \/ /\ loc[w].p.cash = R(INITIAL_CASH)
               /\ loc[w].p.pos = Zero
            \/ \E i \in 1..Len(loc[w].rows) :
                  /\ loc[w].rows[i].cash_after = loc[w].p.cash
                  /\ loc[w].rows[i].pos_after = loc[w].p.pos

\* C7: an accepted trade passes the margin gate at the post-trade price:
\* cash_after + pos_after * price >= min_equity and |pos_after| * price <=
\* (cash_after + pos_after * price) * leverage_max + 1e-9, for the wallet
\* it has written.  Checked where the wallet is written and the lock held.
C7_MarginGate ==
    \A w \in Workers :
        pc[w] \in {"buy_insert", "sell_insert"} =>
            LET c == players[loc[w].code].cash
                p == players[loc[w].code].pos
                eq == RAdd(c, RMul(p, price))
            IN  /\ c = loc[w].cash_after /\ p = loc[w].pos_after
                /\ RLe(cfg.min_equity, eq)
                /\ LeEps(XAdd(RMul(RAbs(p), price),
                              RNeg(RMul(eq, cfg.leverage_max))))

\* A trade is accepted under the tight leverage cap, leaving a position.
C7_Witness ==
    /\ cfg = CfgTight
    /\ \E w \in Workers : pc[w] = "buy_insert" /\ RPos(loc[w].pos_after)

BuyLaw(w) ==
    LET l == loc[w]
        cash == l.pre.wallets[l.code][1]
        pos == l.pre.wallets[l.code][2]
        eff == RSub(l.amt, RMul(l.amt, cfg.fee_rate))
        rich_out == RSub(l.pre.pool_x,
                         RDiv(l.pre.pool_k, RAdd(l.pre.pool_y, eff)))
        row == trades'[Len(trades')]
    IN  /\ row.code = l.code /\ row.side = "BUY"
        /\ row.cash_after = RSub(cash, l.amt)
        /\ row.pos_after = RAdd(pos, rich_out)
        /\ players'[l.code].cash = row.cash_after
        /\ players'[l.code].pos = row.pos_after

SellLaw(w) ==
    LET l == loc[w]
        cash == l.pre.wallets[l.code][1]
        pos == l.pre.wallets[l.code][2]
        gross == RSub(l.pre.pool_y,
                      RDiv(l.pre.pool_k, RAdd(l.pre.pool_x, l.amt)))
        usd_out == RSub(gross, RMul(gross, cfg.fee_rate))
        row == trades'[Len(trades')]
    IN  /\ row.code = l.code /\ row.side = "SELL"
        /\ row.cash_after = RAdd(cash, usd_out)
        /\ row.pos_after = RSub(pos, l.amt)
        /\ players'[l.code].cash = row.cash_after
        /\ players'[l.code].pos = row.pos_after

\* C8: the wallet written and the row inserted by an accepted trade follow
\* the wallet law on the cash, pos, x, y, k the trade found under the lock:
\* BUY: cash - usd_in, pos + (x - k / (y + usd_in * (1 - fee_rate)));
\* SELL: cash + (y - k / (x + rich_in)) * (1 - fee_rate), pos - rich_in,
\* an amount a times (1 - fee_rate) being the float a - a * fee_rate.
C8_WalletLaw ==
    [][\A w \in Workers : /\ MarketBuyCommit(w) => BuyLaw(w)
                          /\ MarketSellCommit(w) => SellLaw(w)]_vars

\* A buy and a sell with a fee charged have both been committed.
C8_Witness ==
    /\ RPos(cfg.fee_rate)
    /\ \E i, j \in 1..Len(trades) :
          trades[i].side = "BUY" /\ trades[j].side = "SELL"

\* C9: in every state after start_game, pool_k = pool_x * pool_y, whatever
\* trades were accepted and refused.
C9_KIsProduct ==
    (started /\ RPos(pool_x)) => pool_k = RMul(pool_x, pool_y)

\* C10: whenever the pool is initialized (pool_x > 0 and pool_y > 0) and the
\* lock is free, price = pool_y / pool_x; restarts included.
C10_PriceIsRatio ==
    (RPos(pool_x) /\ RPos(pool_y) /\ lock = "none") =>
        price = RDiv(pool_y, pool_x)

\* After a restart the engine has reloaded a pool that trades had moved,
\* and a call has since been refused at the margin check.
C10_Witness ==
    /\ restarts_left < MaxRestarts
    /\ pc[Ticker] = "loop"
    /\ lock = "none"
    /\ RPos(pool_x) /\ pool_x # SeededPool.x
    /\ \E w \in Workers : Refused(w, MarginRefusal)

\* C11: start_game called on an engine that is started with positive
\* reserves changes none of pool_x, pool_y, pool_k, price, the live candle,
\* the started flag and the persisted engine state, however often called.
C11_StartGameIdempotent ==
    [][\A w \in Workers :
          (StartGameEnter(w) /\ started /\ RPos(pool_x) /\ RPos(pool_y)) =>
              UNCHANGED <<pool_x, pool_y, pool_k, price, started, candleVars,
                          market_state>>]_vars

\* start_game has been called on a started pool that a trade had moved.
C11_Witness ==
    /\ \E w \in Workers : pc[w] = "sg_inner"
    /\ started /\ Len(trades) >= 1

\* The pool and started flag init_or_load leaves in a fresh engine, given
\* the store as it is.
Rehydrated ==
    [pool_x |-> IF StoredPoolOk THEN _get_state_float("pool_x") ELSE Zero,
     pool_y |-> IF StoredPoolOk THEN _get_state_float("pool_y") ELSE Zero,
     pool_k |-> IF StoredPoolOk THEN _get_state_float("pool_k") ELSE Zero,
     started |-> (get_state("started") = Str("1"))]

\* C12: when the server is stopped after any sequence of start_game, trades
\* and ticks (no call holding the lock) and started again, init_or_load on
\* the fresh engine yields the pool_x, pool_y, pool_k and started the
\* stopped engine held.
C12_PoolSurvivesRestart ==
    [][(Restart /\ lock = "none" /\ pc[Ticker] \notin {"init", "init_wait"}) =>
          Rehydrated = [pool_x |-> pool_x, pool_y |-> pool_y,
                        pool_k |-> pool_k, started |-> started]]_vars

\* C13: trade ids are strictly increasing in commit order, whoever commits
\* the row (market_buy, market_sell, liquidation): a step keeps every row
\* already committed as it is, id included, and gives each row it commits
\* an id greater than every id committed before.
C13_IdsIncrease ==
    [][/\ Len(trades') >= Len(trades)
       /\ \A i \in 1..Len(trades) : trades'[i] = trades[i]
       /\ \A j \in (Len(trades) + 1)..Len(trades') :
             \A i \in 1..(j - 1) : trades'[i].id < trades'[j].id]_vars

\* A liquidation has committed a row after a trade's row.
C13_Witness ==
    /\ Len(trades) >= 2
    /\ \E j \in 2..Len(trades) :
          /\ trades[j].cash_after = Zero /\ trades[j].pos_after = Zero
          /\ trades[j].fee = Zero /\ trades[j - 1].side = "BUY"


(***************************************************************************)
(* Candles.                                                                 *)
(***************************************************************************)
WellFormed(o, h, l, c) ==
    /\ RLe(l, RMin(o, c))
    /\ RLe(RMin(o, c), RMax(o, c))
    /\ RLe(RMax(o, c), h)

\* C14: the live candle and every candle row in the store satisfy
\* low <= min(open, close) <= max(open, close) <= high, whether the row came
\* from the seeder, from a rollover by the tick or from a rollover by a trade.
C14_CandlesWellFormed ==
    /\ WellFormed(candle_o, candle_h, candle_l, candle_c)
    /\ \A ts \in DOMAIN candles :
          WellFormed(candles[ts].open, candles[ts].high, candles[ts].low,
                     candles[ts].close)

\* Seeded rows that moved, a row closed by a rollover after a trade moved
\* the price within its second, and a live candle a trade has moved.
C14_Witness ==
    /\ \E ts \in DOMAIN candles : ts < 0 /\ RLt(candles[ts].low, candles[ts].high)
    /\ \E ts \in DOMAIN candles : ts >= 1 /\ RLt(candles[ts].low, candles[ts].high)
    /\ candle_ts = 2
    /\ RLt(candle_l, candle_h)

(***************************************************************************)
(* The tick.                                                                *)
(***************************************************************************)
\* What a step of _tick may change: the live candle, the candle table by
\* the row of the candle it closes, and the stored price and candle_ts.
TickFrame ==
    /\ UNCHANGED <<price, pool_x, pool_y, pool_k, started, players>>
    /\ ~RPos(cfg.stopout_equity) => trades' = trades
    /\ \A ts \in DOMAIN candles' :
          \/ (ts \in DOMAIN candles /\ candles'[ts] = candles[ts])
          \/ (ts = candle_ts /\ candle_ts' # candle_ts)
    /\ \A key \in DOMAIN market_state :
          key \notin {"price", "candle_ts"} =>
              market_state'[key] = market_state[key]

\* The step in which worker w's trade is turned down at the margin check.
MarginRefused(w) ==
    pc'[w] = "idle" /\ (MarketBuyMargin(w) \/ MarketSellMargin(w))

\* C15: a tick changes none of price, pool_x, pool_y, pool_k, started, the
\* wallets and (with stopout_equity = 0) the trade table: it moves or rolls
\* the live candle and stores price and candle_ts.  So, once the game has
\* started the price moves in the steps of a trade only, and a trade that is
\* not accepted leaves the price it found.
C15_TickFrame ==
    [][/\ (TickRead \/ TickLocked) => TickFrame
       /\ (started /\ started' /\ price' # price) =>
              \E w \in Workers : \/ MarketBuyEnter(w) \/ MarketSellEnter(w)
                                  \/ MarketBuyMargin(w) \/ MarketSellMargin(w)
       /\ \A w \in Workers : MarginRefused(w) => price' = loc[w].pre.price]_vars

\* The part of C15 about the tick alone.
TickAlone == [][(TickRead \/ TickLocked) => TickFrame]_vars

(***************************************************************************)
(* The PnL reconstructor.                                                   *)
(***************************************************************************)
\* What the replay of the first n rows of code's log yields.
ReplayOf(code, n) ==
    StatsFold([pos |-> Zero, avg |-> Zero, realized |-> Zero],
              SubSeq(_list_trades_asc(code), 1, n))

\* C16: after the replay of any prefix of any player's trade log (rows with
\* qty > 0 and price > 0) the average price is not negative, and it is zero
\* exactly when the reconstructed position is zero.
C16_AvgSign ==
    \A code \in Codes : \A n \in 0..Len(_list_trades_asc(code)) :
        LET s == ReplayOf(code, n)
        IN  /\ ~RLt(s.avg, Zero)
            /\ RZero(s.avg) <=> RZero(s.pos)

\* A log whose replay goes long, is closed exactly, goes short and is
\* flipped to long again by one row.
C16_Witness ==
    /\ Len(_list_trades_asc("alice")) = 4
    /\ RPos(ReplayOf("alice", 1).pos)
    /\ RZero(ReplayOf("alice", 2).pos)
    /\ RLt(ReplayOf("alice", 3).pos, Zero)
    /\ RPos(ReplayOf("alice", 4).pos)

(***************************************************************************)
(* The stats memo.                                                          *)
(***************************************************************************)
\* The number of code's rows with an id up to id.
SeenBy(code, id) ==
    Len(SelectSeq(_list_trades_asc(code), LAMBDA t : t.id <= id))

\* The step in which worker w's stats call returns the memo's entry.
ServedFromCache(w) == StatsCached(w) /\ pc'[w] = "idle"

\* C17: the memo serves no stale stats.  An entry is returned only if it
\* was stored at most 2 s before the time the call has read and its id is
\* the player's latest trade id as the call has read it, and what is returned is what a replay of the
\* player's log yields: of the log as it stands at some moment from that
\* read on (the rows are only appended, so: of a prefix of the present log
\* that has every row the call has seen), whatever the interleaving of the
\* stats calls with inserted trades and liquidations.
C17_NoStaleStats ==
    [][\A w \in Workers :
          ServedFromCache(w) =>
              LET l == loc[w]
                  cached == _STATS_CACHE[l.code]
              IN  /\ l.now - cached[4] <= _STATS_CACHE_TTL_SEC
                  /\ cached[2] = l.last_id
                  /\ \E n \in SeenBy(l.code, l.last_id)
                                ..Len(_list_trades_asc(l.code)) :
                         loc'[w].value = ReplayOf(l.code, n)]_vars

\* A call was answered from the memo with the stats of a log of two rows.
C17_Witness ==
    \E w \in Workers :
        /\ Len(_list_trades_asc("alice")) = 2
        /\ loc[w].op = "stats_ret"
        /\ loc[w].hit
        /\ loc[w].value = ReplayOf("alice", 2)

(***************************************************************************)
(* join.                                                                    *)
(***************************************************************************)
\* C18: join is idempotent on the wallet.  The first join of a code creates
\* its row with cash = INITIAL_CASH and pos = 0; a later join leaves its
\* cash, pos and created_at as they are (only nick and updated_at change),
\* also between the steps of that player's trades; no other row changes.
C18_JoinIdempotent ==
    [][\A w \in Workers, code \in Codes, nick \in Nicks :
          Join(w, code, nick) =>
              /\ players'[code] # NoRow
              /\ IF players[code] = NoRow
                 THEN /\ players'[code].cash = R(INITIAL_CASH)
                      /\ players'[code].pos = Zero
                 ELSE /\ players'[code].cash = players[code].cash
                      /\ players'[code].pos = players[code].pos
                      /\ players'[code].created_at = players[code].created_at
              /\ \A c \in Codes \ {code} : players'[c] = players[c]]_vars

\* alice, who has traded, bears a new nick while a trade of hers has
\* updated her wallet and not yet inserted its row; bob has joined.
C18_Witness ==
    /\ HasRow("alice") /\ HasRow("bob")
    /\ players["alice"].nick # "old"
    /\ ~RZero(players["alice"].pos)
    /\ \E w \in Workers : pc[w] \in {"buy_insert", "sell_insert"}

(***************************************************************************)
(* The seeder.                                                              *)
(***************************************************************************)
\* C19: no step of seed_history_if_needed changes pool_x, pool_y, pool_k or
\* started, inserts a trade row or changes a wallet; every candle that is
\* in the store stays as it is, and a candle the seeder writes has a ts
\* below end_ts (the earliest ts the store held, or the aligned now).
C19_SeedFrame ==
    [][(SeedStart \/ SeedAnchor \/ SeedCandle \/ SeedTag) =>
          /\ UNCHANGED <<pool_x, pool_y, pool_k, started, trades, players>>
          /\ \A ts \in DOMAIN candles :
                ts \in DOMAIN candles' /\ candles'[ts] = candles[ts]
          /\ \A ts \in DOMAIN candles' \ DOMAIN candles :
                ts < loc[Ticker].end_ts]_vars

\* The seeder has run to its end on a store that held one candle, and a
\* trade was made meanwhile or since.
C19_Witness ==
    /\ pc[Ticker] \notin {"init", "seed_anchor", "seed_loop"}
    /\ {0 - 4, 0 - 2, 0} \subseteq DOMAIN candles
    /\ candles[0].open = R(96) /\ candles[0].close = R(100)
    /\ trades # <<>>

(***************************************************************************)
(* Aggregation.                                                             *)
(***************************************************************************)
\* The rows of raw that fall into bucket b at tf.
InBucket(raw, tf, b) == {i \in 1..Len(raw) : (raw[i].ts \div tf) * tf = b}

\* out is the aggregation of raw at tf: one candle for each bucket that has
\* a row, in strictly increasing time, with the open of the bucket's first
\* row, the close of its last, the greatest high and the least low.
AggregatesTo(raw, tf, out) ==
    /\ Len(out) = Cardinality({(raw[i].ts \div tf) * tf : i \in 1..Len(raw)})
    /\ \A j \in 1..(Len(out) - 1) : out[j].time < out[j + 1].time
    /\ \A j \in 1..Len(out) :
          LET rows == InBucket(raw, tf, out[j].time)
          IN  /\ rows # {}
              /\ \E first \in rows :
                    /\ \A i \in rows : first <= i
                    /\ out[j].open = raw[first].open
              /\ \E last \in rows :
                    /\ \A i \in rows : i <= last
                    /\ out[j].close = raw[last].close
              /\ \E i \in rows : out[j].high = raw[i].high
              /\ \A i \in rows : RLe(raw[i].high, out[j].high)
              /\ \E i \in rows : out[j].low = raw[i].low
              /\ \A i \in rows : RLe(out[j].low, raw[i].low)

\* C20: for rows in ascending ts and tf >= 1, _aggregate_candles puts out
\* exactly one candle per bucket (ts div tf) * tf that has a row, in strictly
\* increasing time, with open = the first row's open, close = the last
\* row's close, high = the greatest high and low = the least low.
C20_Aggregation ==
    \A w \in Workers :
        loc[w].op = "candles" =>
            AggregatesTo(loc[w].raw, loc[w].tf, loc[w].out)

\* Five rows at 0..4 were aggregated at tf = 2 into three candles, the
\* first of which has a high and a low from different rows.
C20_Witness ==
    \E w \in Workers :
        /\ loc[w].op = "candles"
        /\ Len(loc[w].raw) = 5
        /\ loc[w].tf = 2
        /\ Len(loc[w].out) = 3
        /\ loc[w].out[1].high = R(5)
        /\ loc[w].out[1].low = R(0)

\* C21: aggregating rows of distinct ascending ts at tf = 1 gives the rows
\* back (same times, same OHLC), and aggregating the result of an
\* aggregation again at the same tf gives that same result.
C21_Idempotent ==
    \A w \in Workers :
        /\ (loc[w].op = "candles" /\ loc[w].tf = 1) =>
               AsRows(loc[w].out) = loc[w].raw
        /\ (loc[w].op = "candles_again" /\ ~loc[w].as_rows) =>
               (~loc[w].raised /\ loc[w].again = loc[w].first)

\* C21, amended: the same at tf = 1; and the result of an aggregation, its
\* candles taken as rows (ts = time), aggregates at the same tf to itself.
C21_IdempotentAsRows ==
    \A w \in Workers :
        /\ (loc[w].op = "candles" /\ loc[w].tf = 1) =>
               AsRows(loc[w].out) = loc[w].raw
        /\ (loc[w].op = "candles_again" /\ loc[w].as_rows) =>
               (~loc[w].raised /\ loc[w].again = loc[w].first)

\* Two candles that each merged rows (tf = 2) were aggregated again as rows.
C21_Witness ==
    \E w \in Workers :
        /\ loc[w].op = "candles_again"
        /\ loc[w].as_rows
        /\ loc[w].tf = 2
        /\ Len(loc[w].first) = 3
        /\ loc[w].first[1].high = R(5)
        /\ loc[w].first[1].low = R(0)

(***************************************************************************)
(* Cash moves.                                                              *)
(***************************************************************************)
\* The rows <<side, notional>> of player c whose wallet write is this step:
\* the UPDATE of an accepted trade or of a liquidation, each followed by
\* the INSERT of its row by the same thread.
RowsWritten(c) ==
    {<<loc[w].side, loc[w].notional>> :
        w \in {v \in Workers : /\ pc[v] \in {"buy_margin", "sell_margin"}
                               /\ pc'[v] \in {"buy_insert", "sell_insert"}
                               /\ loc[v].code = c}}
    \cup
    (IF /\ pc[Ticker] = "liq_rows"
        /\ pc'[Ticker] = "liq_insert"
        /\ Head(loc[Ticker].rows).code = c
     THEN LET r == Head(loc[Ticker].rows)
          IN  {<<IF RPos(r.pos) THEN "SELL" ELSE "BUY",
                 RMul(RAbs(r.pos), loc[Ticker].mark)>>}
     ELSE {})

\* C22: in every step, a player's cash goes down only with a BUY row of
\* that player, by the row's usd_in, and goes up only with a SELL row of
\* that player, by the row's usd_out (net of fee); the wallet writes of the
\* liquidation (stopout_equity > 0) are among the steps.
C22_CashMoves ==
    [][\A c \in Codes :
          (HasRow(c) /\ players'[c] # NoRow) =>
              LET a == players[c].cash
                  b == players'[c].cash
              IN  /\ RLt(b, a) => \E r \in RowsWritten(c) :
                                     r[1] = "BUY" /\ b = RSub(a, r[2])
                  /\ RLt(a, b) => \E r \in RowsWritten(c) :
                                     r[1] = "SELL" /\ b = RAdd(a, r[2])]_vars

\* C23: in every state in which no trade holds the lock, every player's
\* exposure |pos| * price is at most (cash + pos * price) * leverage_max
\* (+ 1e-9) at the engine's current price, whoever moved the price last.
C23_LeverageBounded ==
    lock = "none" =>
        \A c \in Codes :
            HasRow(c) =>
                LET eq == _equity(players[c].cash, players[c].pos, price)
                IN  LeEps(XAdd(RMul(RAbs(players[c].pos), price),
                               RNeg(RMul(eq, cfg.leverage_max))))

(***************************************************************************)
(* Time.                                                                    *)
(***************************************************************************)
\* C24: the trade rows of a player, in the order of their ids, are in
\* ascending time: of two rows of the same player, the one with the larger
\* id has a ts at least the other's, whatever the interleaving of the calls.
C24_TradesAscendByTime ==
    \A i, j \in 1..Len(trades) :
        (trades[i].code = trades[j].code /\ trades[i].id < trades[j].id) =>
            trades[i].ts <= trades[j].ts

\* C25: a tick or a trade never moves the live candle_ts back: the live
\* candle is persisted and a new one opened only for a bucket strictly
\* greater than candle_ts, each operation having read the clock before it
\* took the lock.
C25_CandleTsMonotone ==
    [][(\/ TickLocked
        \/ \E w \in Workers : MarketBuyCommit(w) \/ MarketSellCommit(w))
          => candle_ts' >= candle_ts]_vars

(***************************************************************************)
(* Lifecycle.                                                               *)
(***************************************************************************)
\* C26: once a game was started and its state persisted (started = "1" and
\* positive reserves in the store), no start_game call replaces the
\* persisted pool_x, pool_y, pool_k: not even one that arrives after a
\* restart, before the background thread has run init_or_load.
C26_StartedOnce ==
    [][\A w \in Workers :
          (/\ StartGameEnter(w)
           /\ get_state("started") = Str("1")
           /\ StoredPoolOk) =>
              /\ market_state'.pool_x = market_state.pool_x
              /\ market_state'.pool_y = market_state.pool_y
              /\ market_state'.pool_k = market_state.pool_k]_vars

\* C27: start_game on an engine that is not started sets
\* pool_y = max(1000, initial_usd_liquidity), pool_x = pool_y / max(0.0001,
\* price) for the price at the call, pool_k = pool_x * pool_y,
\* price = pool_y / pool_x and started = true, opens the live candle of the
\* current bucket with open = high = low = close = price, and persists
\* pool, price, candle_ts and started.
C27_StartGameSeeds ==
    [][\A w \in Workers :
          (StartGameEnter(w) /\ ~started) =>
              /\ pool_y' = (IF RLt(R(1000), cfg.initial_usd_liquidity)
                            THEN cfg.initial_usd_liquidity ELSE R(1000))
              /\ pool_x' = RDiv(pool_y', IF RLt(Frac(1, 10000), price)
                                         THEN price ELSE Frac(1, 10000))
              /\ pool_k' = RMul(pool_x', pool_y')
              /\ price' = RDiv(pool_y', pool_x')
              /\ started'
              /\ candle_ts' = Bucket(clock)
              /\ candle_o' = price' /\ candle_h' = price'
              /\ candle_l' = price' /\ candle_c' = price'
              /\ market_state'.pool_x = Str(pool_x')
              /\ market_state'.pool_y = Str(pool_y')
              /\ market_state'.pool_k = Str(pool_k')
              /\ market_state'.price = Str(price')
              /\ market_state'.candle_ts = Str(candle_ts')
              /\ market_state'.started = Str("1")]_vars

\* start_game has seeded a pool on an engine that had none: the worker is
\* past the with-block, its closing snapshot still to come.
C27_Witness ==
    /\ \E w \in Workers : pc[w] = "sg_snapshot"
    /\ started
    /\ pool_y = R(1000) /\ pool_x = R(10)
    /\ market_state.started = Str("1")
    /\ trades = <<>>

(***************************************************************************)
(* Snapshots.                                                               *)
(***************************************************************************)
\* The reserves the first n trade rows leave when applied, one after the
\* other, to the pool start_game seeded: a BUY adds its usd_in less fee to
\* y, a SELL adds its qty to x, the other reserve being k over the new one.
RECURSIVE PoolAfter(_)
PoolAfter(n) ==
    IF n = 0 THEN SeededPool
    ELSE LET p == PoolAfter(n - 1)
             t == trades[n]
         IN  IF t.side = "BUY"
             THEN LET y_new == RAdd(p.y, RSub(t.notional, t.fee))
                  IN  [x |-> BuyXNew(p.k, y_new), y |-> y_new, k |-> p.k]
             ELSE LET x_new == RAdd(p.x, t.qty)
                  IN  [x |-> x_new, y |-> SellYNew(p.k, x_new), k |-> p.k]

\* C28: a snapshot taken while trades run never shows the reserves or the
\* price of a trade that the margin check turns down: the pool_x, pool_y and
\* price of every snapshot of a started engine are those left by some
\* prefix of the accepted trades.
C28_SnapshotOfAccepted ==
    \A w \in Workers :
        (loc[w].op = "snapshot" /\ loc[w].snapshot.started) =>
            \E n \in 0..Len(trades) :
                /\ loc[w].snapshot.pool.x_rich = PoolAfter(n).x
                /\ loc[w].snapshot.pool.y_usd = PoolAfter(n).y
                /\ loc[w].snapshot.price = RDiv(PoolAfter(n).y, PoolAfter(n).x)

\* No snapshot is taken while a trade holds candidate reserves.
SnapshotOutsideTrades ==
    [][\A w \in Workers :
          Snapshot(w) => \A v \in Workers :
                            pc[v] \notin {"buy_margin", "sell_margin",
                                          "buy_insert", "sell_insert"}]_vars

(***************************************************************************)
(* Margin of a flat buyer.                                                  *)
(***************************************************************************)
\* The margin check of w's market_buy, the buyer flat with the initial cash
\* and spending at least u of it.
FlatBuyChecked(w, u) ==
    /\ MarketBuyMargin(w)
    /\ loc[w].pos = Zero
    /\ loc[w].cash = R(INITIAL_CASH)
    /\ RLe(u, loc[w].amt)

\* C29: scenario S3: with leverage_max = 1, min_equity = 0, fee_rate = 0
\* and a flat player holding cash 10000, the BUY that consumes nearly all of
\* the cash (usd_in <= cash) has a post-trade exposure above the post-trade
\* equity: market_buy turns it down at the margin check and leaves the pool
\* as it was.
C29_FlatBuyRefused ==
    [][\A w \in Workers :
          FlatBuyChecked(w, R(9992)) =>
              /\ pc'[w] = "idle"
              /\ ~loc'[w].ok
              /\ pool_x' = loc[w].pre.pool_x /\ pool_y' = loc[w].pre.pool_y]_vars

\* C29, amended: under these settings no BUY of a flat player that passed
\* the cash check (usd_in <= cash) is turned down at the margin check: its
\* exposure pos_after * price is at most its equity cash_after + pos_after *
\* price, cash_after being >= 0; the wallet is written and the candidate
\* reserves stay.
C29_FlatBuyPasses ==
    [][\A w \in Workers :
          FlatBuyChecked(w, Zero) =>
              /\ ~RLt(loc[w].cash_after, Zero)
              /\ RLe(RMul(RAbs(loc[w].pos_after), price),
                     _equity(loc[w].cash_after, loc[w].pos_after, price))
              /\ pc'[w] = "buy_insert"
              /\ players'[loc[w].code].cash = loc[w].cash_after
              /\ pool_x' = loc[w].x_new /\ pool_y' = loc[w].y_new]_vars

\* The flat player's BUY of all her cash has passed the margin check, with
\* exposure equal to equity.
C29_Witness ==
    /\ cfg = CfgUnlevered
    /\ \E w \in Workers :
          /\ pc[w] = "buy_insert"
          /\ loc[w].pos = Zero
          /\ loc[w].amt = R(INITIAL_CASH)
          /\ loc[w].cash_after = Zero
          /\ RMul(loc[w].pos_after, price) =
                 _equity(loc[w].cash_after, loc[w].pos_after, price)

(***************************************************************************)
(* Crossing trades in the PnL reconstructor.                                *)
(***************************************************************************)
\* C30: the replay closes, then flips, on a crossing row: a SELL of
\* qty > pos on a long pos > 0 with basis avg adds (price - avg) * pos - fee
\* to realized and leaves pos = -(qty - pos), avg = price; a BUY of
\* qty > |pos| on a short adds (avg - price) * |pos| - fee and leaves
\* pos = qty - |pos|, avg = price.
C30_CrossingFlips ==
    \A n \in 1..Len(_list_trades_asc("alice")) :
        LET t == _list_trades_asc("alice")[n]
            s == ReplayOf("alice", n - 1)
            r == ReplayOf("alice", n)
        IN  /\ (t.side = "SELL" /\ RPos(s.pos) /\ RLt(s.pos, t.qty)) =>
                  /\ r.pos = RNeg(RSub(t.qty, s.pos))
                  /\ r.avg = t.price
                  /\ r.realized =
                        RSub(RAdd(s.realized,
                                  RMul(RSub(t.price, s.avg), s.pos)), t.fee)
            /\ (t.side = "BUY" /\ RLt(s.pos, Zero) /\ RLt(RAbs(s.pos), t.qty)) =>
                  /\ r.pos = RSub(t.qty, RAbs(s.pos))
                  /\ r.avg = t.price
                  /\ r.realized =
                        RSub(RAdd(s.realized,
                                  RMul(RSub(s.avg, t.price), RAbs(s.pos))), t.fee)

\* BUY 5 @ 100, then SELL 8 @ 110, no fee: pos = -3, avg = 110,
\* realized = 50; then a BUY of 5 @ 100 with a fee of 1 crosses the short.
C30_Witness ==
    /\ Len(_list_trades_asc("alice")) = 3
    /\ ReplayOf("alice", 1) = [pos |-> R(5), avg |-> R(100), realized |-> Zero]
    /\ _list_trades_asc("alice")[2].side = "SELL"
    /\ ReplayOf("alice", 2) = [pos |-> RNeg(R(3)), avg |-> R(110),
                               realized |-> R(50)]
    /\ ReplayOf("alice", 3) = [pos |-> R(2), avg |-> R(100),
                               realized |-> R(79)]

(***************************************************************************)
(* The price a trade returns.                                               *)
(***************************************************************************)
\* C34: the price_after an accepted market_buy or market_sell returns is the
\* pool price right after that trade's own reserve update (its y_new over
\* its x_new), whatever other trades run at the same time.
C34_PriceAfterIsOwn ==
    [][\A w \in Workers :
          /\ MarketBuyReturn(w) =>
                BuyResult(w).price_after = RDiv(loc[w].y_new, loc[w].x_new)
          /\ MarketSellReturn(w) =>
                SellResult(w).price_after = RDiv(loc[w].y_new, loc[w].x_new)]_vars

(***************************************************************************)
(* Liquidation.                                                             *)
(***************************************************************************)
\* C32: liquidation runs only when stopout_equity > 0 and changes none of
\* pool_x, pool_y, pool_k, price; for each player it flattens it writes
\* cash = 0 and pos = 0 and appends one row with fee 0, priced at the mark,
\* whose side is opposite to, and whose qty is the absolute value of, the
\* position the wallet held right before that write.
C32_LiquidationBypassesPool ==
    [][/\ (LiqSelect \/ LiqMark \/ LiqUpdate \/ LiqInsert) =>
             /\ RPos(cfg.stopout_equity)
             /\ UNCHANGED <<pool_x, pool_y, pool_k, price>>
       /\ (LiqUpdate /\ pc'[Ticker] = "liq_insert") =>
             LET r == Head(loc[Ticker].rows)
             IN  /\ players'[r.code].cash = Zero
                 /\ players'[r.code].pos = Zero
                 /\ RPos(r.pos) = RPos(players[r.code].pos)
                 /\ RAbs(r.pos) = RAbs(players[r.code].pos)
       /\ LiqInsert =>
             LET r == Head(loc[Ticker].rows)
                 t == trades'[Len(trades')]
             IN  /\ Len(trades') = Len(trades) + 1
                 /\ t.code = r.code
                 /\ t.fee = Zero
                 /\ t.price = loc[Ticker].mark
                 /\ t.side = (IF RPos(r.pos) THEN "SELL" ELSE "BUY")
                 /\ t.qty = RAbs(r.pos)
                 /\ t.cash_after = Zero /\ t.pos_after = Zero]_vars

(***************************************************************************)
(* SpecRoll: an engine that starts with an empty candle table and no        *)
(* seeder, so that every stored candle was written by a rollover of          *)
(* _touch_candle, while the clock advances under ticks and trades.           *)
(***************************************************************************)
\* The number of calls the workers make while the clock advances.
RollCalls == 2

InitRoll ==
    /\ cfg = CfgDeployed
    /\ InitEngine
    /\ players = [c \in Codes |-> IF c = "alice" THEN NewPlayer("old", 0) ELSE NoRow]
    /\ trades = <<>>
    /\ candles = <<>>
    /\ market_state = StartedState
    /\ clock = 1
    /\ pc = [t \in Threads |-> IF t = Ticker THEN "init" ELSE "idle"]
    /\ loc = [t \in Threads |-> Idle]
    /\ calls_left = RollCalls
    /\ restarts_left = 0
    /\ _STATS_CACHE = [c \in Codes |-> None]
    /\ _STATS_CACHE_TS = [c \in Codes |-> 0]
    /\ served = NoHistory

NextRoll ==
    \/ \E w \in Workers : MarketBuyCall(w, "alice", R(1000))
    \/ \E w \in Workers : MarketBuyEnter(w)
    \/ \E w \in Workers : MarketBuyMargin(w)
    \/ \E w \in Workers : MarketBuyCommit(w)
    \/ \E w \in Workers : MarketBuyReturn(w)
    \/ \E w \in Workers : MarketSellCall(w, "alice", R(3))
    \/ \E w \in Workers : MarketSellEnter(w)
    \/ \E w \in Workers : MarketSellMargin(w)
    \/ \E w \in Workers : MarketSellCommit(w)
    \/ \E w \in Workers : MarketSellReturn(w)
    \/ InitOrLoadRead
    \/ InitOrLoadLocked
    \/ TickRead
    \/ TickLocked
    \/ Advance

SpecRoll == InitRoll /\ [][NextRoll]_vars

\* C33: once the closed candle of a bucket T was persisted at a rollover, no
\* later tick or trade replaces the stored row of T by one with another
\* open, high, low or close, in any interleaving of ticks and trades.
C33_ClosedCandleKept ==
    [][(\/ TickLocked
        \/ \E w \in Workers : MarketBuyCommit(w) \/ MarketSellCommit(w))
          => \A T \in DOMAIN candles : candles'[T] = candles[T]]_vars

(***************************************************************************)
(* SpecQuiet: the clock runs from second 0 and a second passes only while   *)
(* no trade is executing, so that the ts of a trade row is the second in    *)
(* which the trade ran; the process may be stopped and started again.        *)
(***************************************************************************)
InitQuiet ==
    /\ cfg = CfgDeployed
    /\ InitEngine
    /\ players = [c \in Codes |-> IF c = "alice" THEN NewPlayer("old", 0) ELSE NoRow]
    /\ trades = <<>>
    /\ candles = <<>>
    /\ market_state = StartedState
    /\ clock = 0
    /\ pc = [t \in Threads |-> IF t = Ticker THEN "init" ELSE "idle"]
    /\ loc = [t \in Threads |-> Idle]
    /\ calls_left = RollCalls
    /\ restarts_left = MaxRestarts
    /\ _STATS_CACHE = [c \in Codes |-> None]
    /\ _STATS_CACHE_TS = [c \in Codes |-> 0]
    /\ served = NoHistory

\* A second passes while no trade is executing.
QuietAdvance ==
    /\ \A w \in Workers : pc[w] = "idle"
    /\ Advance

NextQuiet ==
    \/ \E w \in Workers : MarketBuyCall(w, "alice", R(1000))
    \/ \E w \in Workers : MarketBuyEnter(w)
    \/ \E w \in Workers : MarketBuyMargin(w)
    \/ \E w \in Workers : MarketBuyCommit(w)
    \/ \E w \in Workers : MarketBuyReturn(w)
    \/ \E w \in Workers : MarketSellCall(w, "alice", R(3))
    \/ \E w \in Workers : MarketSellEnter(w)
    \/ \E w \in Workers : MarketSellMargin(w)
    \/ \E w \in Workers : MarketSellCommit(w)
    \/ \E w \in Workers : MarketSellReturn(w)
    \/ InitOrLoadRead
    \/ InitOrLoadLocked
    \/ TickRead
    \/ TickLocked
    \/ QuietAdvance
    \/ Restart

SpecQuiet == InitQuiet /\ [][NextQuiet]_vars

\* A stored candle whose open, high, low and close are all p.
FlatAt(row, p) ==
    /\ row.open = p /\ row.high = p
    /\ row.low = p /\ row.close = p

\* The live candle belongs to a bucket that began after the last trade: the
\* bucket is later than the second in which the last trade ran.
OpenedAfterLastTrade ==
    trades = <<>> \/ trades[Len(trades)].ts < candle_ts

\* C31: with no trade executing, a candle the ticker closes for a bucket
\* that began after the last trade is stored flat, its open, high, low and
\* close all equal to the engine price, which the tick leaves unchanged; the
\* tick opens the next bucket's candle at that price, so that ticks in
\* consecutive buckets store one such candle per bucket.
C31_QuietCandlesFlat ==
    [][(/\ TickLocked
        /\ Bucket(loc[Ticker].now_s) # candle_ts
        /\ OpenedAfterLastTrade)
          => /\ price' = price
             /\ candle_ts \in DOMAIN candles'
             /\ FlatAt(candles'[candle_ts], price)
             /\ candle_ts' = Bucket(loc[Ticker].now_s)
             /\ candle_o' = price /\ candle_h' = price
             /\ candle_l' = price /\ candle_c' = price]_vars
=============================================================================
